---------------------------- MODULE Spec2Model ----------------------------
(***************************************************************************)
(* Windowed temporal network metrics engine (package mimetics_metrics).    *)
(*                                                                         *)
(* Timestamps and durations are integers (one unit = one tick).  A data    *)
(* frame of interactions is a sequence of rows [src, dst, timestamp].      *)
(* A Python dict is a function from its keys; dict.update(b) is b @@ a.    *)
(* Floating-point results of third-party numerics that no property below   *)
(* inspects (PageRank vectors, assortativity, path-length averages) are    *)
(* carried as the token Float.  Quotients the code computes itself are     *)
(* exact pairs <<numerator, denominator>>.                                 *)
(***************************************************************************)
EXTENDS Integers, Sequences, FiniteSets, TLC

(***************************************************************************)
(* Bounds of the model                                                     *)
(***************************************************************************)
MaxT == 3            \* timestamps range over 0..MaxT
MaxEvents == 3       \* rows of the data frame handed to the pipeline
MaxDelta == 2        \* largest window width / step
MaxRows == 3         \* rows handed to build_graph
MaxMetricRows == 2   \* rows handed to calculate_all_metrics
MaxComm == 1         \* community ids range over 0..MaxComm

MaxWindows == MaxT + 2   \* cap on the window list (a step <= 0 never ends)

Nodes == {"A", "B", "C"}
PipelineNodes == {"A", "B"}
PartitionNodes == {"A", "B", "C", "D"}

None == "None"
NaT == 0 - 1000000   \* pandas NaT: min()/max() of an empty column; outside every reachable time
NaN == <<"NaN">>
Float == <<"float">>

VARIABLES
    \* ---- create_windows / main (cli_compute.py) ----
    df,               \* the loaded interaction data frame (sorted by time)
    window_size,      \* args.window as a duration
    step_size,        \* args.step as a duration
    pc,               \* position of the running function
    windows,          \* list built by create_windows
    current_start,    \* loop variable of create_windows
    save_communities, \* args.save_communities
    i,                \* index of the window loop / nmi_next loop of main
    all_metrics,      \* list of per-window metric dicts
    all_communities,  \* dict window index -> partition
    metrics_df,       \* data frame built from all_metrics
    \* ---- calculate_all_metrics and the graph builder ----
    interactions_df,  \* rows (src, dst) of one window
    victim_id, leader_id, node_labels,
    G_directed, G_undirected,
    metrics,          \* value returned by calculate_all_metrics
    \* ---- calculate_nmi ----
    communities1, communities2,
    nmi,              \* result of community.calculate_nmi
    nmi_core,         \* result of metrics_core.calculate_nmi_between_communities
    \* ---- detect_communities ----
    method,           \* argument method of detect_communities
    LEIDEN_AVAILABLE, \* module flag set by the import of leidenalg
    dc_pc,            \* position inside detect_communities
    tried,            \* algorithms run so far, in order
    node_to_community,\* value returned by detect_communities
    \* ---- calculate_topk_share ----
    pr_scores,        \* score map handed to calculate_topk_share
    topk_shares,      \* k -> value returned by calculate_topk_share
    \* ---- calculate_betweenness_centralization ----
    bc_graph,         \* graph handed to calculate_betweenness_centralization
    centralization,   \* value it returned
    \* ---- WindowProcessor.get_node_labels ----
    labelled_df,      \* data frame of the WindowProcessor, with a label column
    has_label_col,    \* whether the requested label column is in the frame
    node_label_map,   \* value returned by get_node_labels
    \* ---- detect_burst / find_onset_climax (burst.py) ----
    ts,               \* the series handed to detect_burst / find_onset_climax
    onset_climax,     \* arguments and result of a call of find_onset_climax
    bursts,           \* arguments and result of a call of detect_burst
    \* ---- calculate_time_to_isolation (metrics_core.py) ----
    metrics_series,   \* data frame of per-window victim metrics
    time_to_isolation,\* arguments and result of a call
    \* ---- calculate_dose_response_curves (dose_response.py) ----
    dose_df,          \* metrics frame with a factor and a response column
    curves,           \* arguments and result of a call
    \* ---- a second invocation of main on the same events ----
    run,              \* 1 in the first invocation, 2 in the second
    first_metrics_df  \* the metrics table the first invocation built

varsMain == <<df, window_size, step_size, pc, windows, current_start,
              save_communities, i, all_metrics, all_communities, metrics_df>>
varsMetrics == <<interactions_df, victim_id, leader_id, node_labels,
                 G_directed, G_undirected, metrics>>
varsNmi == <<communities1, communities2, nmi, nmi_core>>
varsCommunity == <<method, LEIDEN_AVAILABLE, dc_pc, tried, node_to_community>>
varsTopk == <<pr_scores, topk_shares>>
varsCentralization == <<bc_graph, centralization>>
varsLabels == <<labelled_df, has_label_col, node_label_map>>
varsBurst == <<ts, onset_climax, bursts>>
varsIsolation == <<metrics_series, time_to_isolation>>
varsDose == <<dose_df, curves>>
varsRerun == <<run, first_metrics_df>>
varsAux == <<varsCommunity, varsTopk, varsCentralization, varsLabels, varsBurst, varsIsolation, varsDose, varsRerun>>
vars == <<varsMain, varsMetrics, varsNmi, varsAux>>
varsButCommunity == <<varsMain, varsMetrics, varsNmi, varsTopk, varsCentralization, varsLabels, varsBurst, varsIsolation, varsDose, varsRerun>>
varsButTopk == <<varsMain, varsMetrics, varsNmi, varsCommunity, varsCentralization, varsLabels, varsBurst, varsIsolation, varsDose, varsRerun>>
varsButCentralization == <<varsMain, varsMetrics, varsNmi, varsCommunity, varsTopk, varsLabels, varsBurst, varsIsolation, varsDose, varsRerun>>
varsButLabels == <<varsMain, varsMetrics, varsNmi, varsCommunity, varsTopk, varsCentralization, varsBurst, varsIsolation, varsDose, varsRerun>>
varsButBurst == <<varsMain, varsMetrics, varsNmi, varsCommunity, varsTopk, varsCentralization, varsLabels, varsIsolation, varsDose, varsRerun>>
varsButIsolation == <<varsMain, varsMetrics, varsNmi, varsCommunity, varsTopk, varsCentralization, varsLabels, varsBurst, varsDose, varsRerun>>
varsButDose == <<varsMain, varsMetrics, varsNmi, varsCommunity, varsTopk, varsCentralization, varsLabels, varsBurst, varsIsolation, varsRerun>>
varsButRerun == <<varsMain, varsMetrics, varsNmi, varsCommunity, varsTopk, varsCentralization, varsLabels, varsBurst, varsIsolation, varsDose>>

(***************************************************************************)
(* Generic helpers                                                         *)
(***************************************************************************)
Range(s) == {s[k] : k \in 1..Len(s)}

SeqsUpTo(S, n) == UNION {[1..m -> S] : m \in 0..n}

IsSortedByTime(s) == \A k \in 1..(Len(s) - 1) : s[k].timestamp <= s[k + 1].timestamp

RECURSIVE SumOver(_, _)
SumOver(f, S) ==
    IF S = {} THEN 0
    ELSE LET x == CHOOSE y \in S : TRUE IN f[x] + SumOver(f, S \ {x})

(***************************************************************************)
(* windows.py : create_windows                                             *)
(***************************************************************************)
\* df[time_col].min() / .max(): NaT on an empty frame
TimeMin(d) == IF Len(d) = 0 THEN NaT ELSE d[1].timestamp
TimeMax(d) == IF Len(d) = 0 THEN NaT ELSE d[Len(d)].timestamp

\* `<' in place of `<=' in the loop condition
WindowFitsStrict(cs, window_delta, end_time) ==
    /\ cs # NaT
    /\ end_time # NaT
    /\ cs + window_delta < end_time

\* loop condition `current_start + window_delta <= end_time'
\* (every comparison with NaT is False)
WindowFits(cs, window_delta, end_time) ==
    /\ cs # NaT
    /\ end_time # NaT
    /\ cs + window_delta <= end_time

\* lines 35-44: parse the durations, read the time range, start the loop
CreateWindowsEnter ==
    /\ pc = "start"
    /\ windows' = << >>
    /\ current_start' = TimeMin(df)
    /\ pc' = "create_windows"
    /\ UNCHANGED <<df, window_size, step_size, save_communities, i,
                   all_metrics, all_communities, metrics_df>>
    /\ UNCHANGED <<varsMetrics, varsNmi, varsAux>>

\* lines 46-49: one iteration of the while loop
CreateWindowsLoop ==
    /\ pc = "create_windows"
    /\ WindowFits(current_start, window_size, TimeMax(df))
    /\ Len(windows) < MaxWindows
    /\ windows' = Append(windows, <<current_start, current_start + window_size>>)
    /\ current_start' = current_start + step_size
    /\ UNCHANGED <<df, window_size, step_size, pc, save_communities,
                   i, all_metrics, all_communities, metrics_df>>
    /\ UNCHANGED <<varsMetrics, varsNmi, varsAux>>

\* lines 46, 51-52: the loop condition fails, the list is returned
CreateWindowsReturn ==
    /\ pc = "create_windows"
    /\ ~WindowFits(current_start, window_size, TimeMax(df))
    /\ pc' = "windows_created"
    /\ UNCHANGED <<df, window_size, step_size, windows, current_start,
                   save_communities, i, all_metrics,
                   all_communities, metrics_df>>
    /\ UNCHANGED <<varsMetrics, varsNmi, varsAux>>

\* Time stamps of a frame, with one fixed ordered pair of actors
TimeFrames ==
    {d \in SeqsUpTo([src : {"A"}, dst : {"B"}, timestamp : 0..MaxT], MaxEvents) :
        IsSortedByTime(d)}

IdleMetrics ==
    /\ interactions_df = << >>
    /\ victim_id = "None"
    /\ leader_id = "None"
    /\ node_labels = [is_none |-> TRUE]
    /\ G_directed = [unbuilt |-> TRUE]
    /\ G_undirected = [unbuilt |-> TRUE]
    /\ metrics = [uncalled |-> TRUE]

IdleNmi ==
    /\ communities1 = << >>
    /\ communities2 = << >>
    /\ nmi = <<"unset">>
    /\ nmi_core = <<"unset">>

IdleCommunity ==
    /\ method = "auto"
    /\ LEIDEN_AVAILABLE = FALSE
    /\ dc_pc = "idle"
    /\ tried = << >>
    /\ node_to_community = [uncalled |-> TRUE]

IdleTopk ==
    /\ pr_scores = << >>
    /\ topk_shares = << >>

IdleCentralization ==
    /\ bc_graph = [unbuilt |-> TRUE]
    /\ centralization = [uncalled |-> TRUE]

IdleLabels ==
    /\ labelled_df = << >>
    /\ has_label_col = FALSE
    /\ node_label_map = [uncalled |-> TRUE]

IdleBurst ==
    /\ ts = << >>
    /\ onset_climax = [uncalled |-> TRUE]
    /\ bursts = [uncalled |-> TRUE]

IdleIsolation ==
    /\ metrics_series = << >>
    /\ time_to_isolation = [uncalled |-> TRUE]

IdleDose ==
    /\ dose_df = << >>
    /\ curves = [uncalled |-> TRUE]

IdleRerun ==
    /\ run = 1
    /\ first_metrics_df = [uncalled |-> TRUE]

IdleAux == IdleCommunity /\ IdleTopk /\ IdleCentralization /\ IdleLabels /\ IdleBurst /\ IdleIsolation /\ IdleDose /\ IdleRerun
IdleButCommunity == IdleTopk /\ IdleCentralization /\ IdleLabels /\ IdleBurst /\ IdleIsolation /\ IdleDose /\ IdleRerun
IdleButTopk == IdleCommunity /\ IdleCentralization /\ IdleLabels /\ IdleBurst /\ IdleIsolation /\ IdleDose /\ IdleRerun
IdleButCentralization == IdleCommunity /\ IdleTopk /\ IdleLabels /\ IdleBurst /\ IdleIsolation /\ IdleDose /\ IdleRerun
IdleButLabels == IdleCommunity /\ IdleTopk /\ IdleCentralization /\ IdleBurst /\ IdleIsolation /\ IdleDose /\ IdleRerun
IdleButBurst == IdleCommunity /\ IdleTopk /\ IdleCentralization /\ IdleLabels /\ IdleIsolation /\ IdleDose /\ IdleRerun
IdleButIsolation == IdleCommunity /\ IdleTopk /\ IdleCentralization /\ IdleLabels /\ IdleBurst /\ IdleDose /\ IdleRerun
IdleButDose == IdleCommunity /\ IdleTopk /\ IdleCentralization /\ IdleLabels /\ IdleBurst /\ IdleIsolation /\ IdleRerun
IdleButRerun == IdleCommunity /\ IdleTopk /\ IdleCentralization /\ IdleLabels /\ IdleBurst /\ IdleIsolation /\ IdleDose

IdleMain ==
    /\ df = << >>
    /\ window_size = 1
    /\ step_size = 1
    /\ pc = "idle"
    /\ windows = << >>
    /\ current_start = NaT
    /\ save_communities = FALSE
    /\ i = 0
    /\ all_metrics = << >>
    /\ all_communities = << >>
    /\ metrics_df = << >>

InitWindows ==
    /\ df \in TimeFrames
    /\ window_size \in (0 - 1)..MaxDelta
    /\ step_size \in (0 - 1)..MaxDelta
    /\ pc = "start"
    /\ windows = << >>
    /\ current_start = NaT
    /\ save_communities = FALSE
    /\ i = 0
    /\ all_metrics = << >>
    /\ all_communities = << >>
    /\ metrics_df = << >>
    /\ IdleMetrics
    /\ IdleNmi
    /\ IdleAux

NextWindows == CreateWindowsEnter \/ CreateWindowsLoop \/ CreateWindowsReturn

SpecWindows == InitWindows /\ [][NextWindows]_vars

(***************************************************************************)
(* graphs.py : build_graph, build_undirected_projection                    *)
(*                                                                         *)
(* A graph is [nodes |-> sequence of nodes in insertion order,             *)
(*             weight |-> function from its edges to their weight,         *)
(*             directed |-> TRUE for nx.DiGraph, FALSE for nx.Graph];      *)
(* a directed edge is <<u, v>>, an undirected edge is the set {u, v}.      *)
(***************************************************************************)
EmptyGraph == [nodes |-> << >>, weight |-> << >>, directed |-> TRUE]

Edges(G) == DOMAIN G.weight
NodeSet(G) == Range(G.nodes)
number_of_nodes(G) == Len(G.nodes)
number_of_edges(G) == Cardinality(Edges(G))
has_node(G, n) == n \in NodeSet(G)
has_edge(G, u, v) == <<u, v>> \in Edges(G)
IndexOf(s, x) == CHOOSE k \in 1..Len(s) : s[k] = x

\* nx.DiGraph.add_edge / item assignment: u then v join the node list when new
add_edge(G, u, v, w) ==
    LET n1 == IF u \in Range(G.nodes) THEN G.nodes ELSE Append(G.nodes, u)
        n2 == IF v \in Range(n1) THEN n1 ELSE Append(n1, v)
    IN [nodes |-> n2, weight |-> (<<u, v>> :> w) @@ G.weight,
        directed |-> G.directed]

\* the loop body without the `src != dst' test
AddInteractionKeepLoops(G, row) ==
    IF has_edge(G, row.src, row.dst)
    THEN add_edge(G, row.src, row.dst, G.weight[<<row.src, row.dst>>] + 1)
    ELSE add_edge(G, row.src, row.dst, 1)

\* lines 42-51: the body of the loop over the rows
AddInteraction(G, row) ==
    IF row.src # row.dst
    THEN IF has_edge(G, row.src, row.dst)
         THEN add_edge(G, row.src, row.dst, G.weight[<<row.src, row.dst>>] + 1)
         ELSE add_edge(G, row.src, row.dst, 1)
    ELSE G

RECURSIVE BuildFrom(_, _, _)
BuildFrom(rows, k, G) ==
    IF k > Len(rows) THEN G
    ELSE BuildFrom(rows, k + 1, AddInteraction(G, rows[k]))

\* build_graph(interactions_df, directed=True)
build_graph(rows) ==
    IF Len(rows) = 0 THEN EmptyGraph ELSE BuildFrom(rows, 1, EmptyGraph)

\* the weight of {u, v} taken as the sum of both directions
ProjectedWeightSummed(G, u, v) ==
    (IF has_edge(G, u, v) THEN G.weight[<<u, v>>] ELSE 0)
        + (IF has_edge(G, v, u) THEN G.weight[<<v, u>>] ELSE 0)

\* nx.DiGraph.to_undirected copies the edge data in adjacency order (sources
\* in node insertion order), so when both directions exist the data of the
\* direction whose source joined the graph later is the one that remains
ProjectedWeight(G, u, v) ==
    IF has_edge(G, u, v) /\ has_edge(G, v, u)
    THEN IF IndexOf(G.nodes, u) > IndexOf(G.nodes, v)
         THEN G.weight[<<u, v>>] ELSE G.weight[<<v, u>>]
    ELSE IF has_edge(G, u, v) THEN G.weight[<<u, v>>] ELSE G.weight[<<v, u>>]

build_undirected_projection(G) ==
    [nodes |-> G.nodes,
     weight |-> [e \in {{d[1], d[2]} : d \in Edges(G)} |->
                    LET u == CHOOSE x \in e : TRUE
                        v == CHOOSE x \in e : x # u
                    IN ProjectedWeight(G, u, v)],
     directed |-> FALSE]

(***************************************************************************)
(* graphs.py : connectivity, ego network, reciprocity                      *)
(***************************************************************************)
Successors(G, u) == {v \in NodeSet(G) : has_edge(G, u, v)}
Predecessors(G, u) == {v \in NodeSet(G) : has_edge(G, v, u)}
UNeighbors(U, u) == {v \in NodeSet(U) : {u, v} \in Edges(U) /\ v # u}

RECURSIVE Closure(_, _)
\* nodes reachable from the set S along the adjacency adj (S included)
Closure(adj, S) ==
    LET T == S \cup UNION {adj[u] : u \in S}
    IN IF T = S THEN S ELSE Closure(adj, T)

Descendants(G, u) == Closure([x \in NodeSet(G) |-> Successors(G, x)], {u})
Ancestors(G, u) == Closure([x \in NodeSet(G) |-> Predecessors(G, x)], {u})
WeakComponent(G, u) ==
    Closure([x \in NodeSet(G) |-> Successors(G, x) \cup Predecessors(G, x)], {u})

\* the components taken without regard to edge direction
strongly_connected_components_undirected(G) ==
    {WeakComponent(G, u) : u \in NodeSet(G)}

strongly_connected_components(G) ==
    {Descendants(G, u) \cap Ancestors(G, u) : u \in NodeSet(G)}
weakly_connected_components(G) ==
    {WeakComponent(G, u) : u \in NodeSet(G)}

Raised(e) == [raised |-> e]
IsRaised(x) == "raised" \in DOMAIN x

\* lines 80-113; nx.is_weakly_connected raises NetworkXPointlessConcept on
\* the null graph ("Connectivity is undefined for the null graph")
get_graph_metadata(G) ==
    LET n_nodes == number_of_nodes(G)
        n_edges == number_of_edges(G)
        density == IF n_nodes <= 1 THEN <<0, 1>>
                   ELSE <<n_edges, n_nodes * (n_nodes - 1)>>
    IN IF n_nodes = 0 THEN Raised("NetworkXPointlessConcept")
       ELSE [n_nodes |-> n_nodes,
             n_edges |-> n_edges,
             density |-> density,
             is_weakly_connected |-> Cardinality(weakly_connected_components(G)) = 1,
             is_strongly_connected |-> Cardinality(strongly_connected_components(G)) = 1,
             n_weakly_components |-> Cardinality(weakly_connected_components(G)),
             n_strongly_components |-> Cardinality(strongly_connected_components(G))]

\* calculate_ego_density counting the edges of the whole ego network, the
\* ego node not removed
calculate_ego_density_with_ego(U, node) ==
    LET neighbors == IF has_node(U, node) THEN UNeighbors(U, node) ELSE {}
        n == Cardinality(neighbors)
        m == Cardinality({e \in Edges(U) : e \subseteq neighbors \cup {node}})
    IN IF n < 2 THEN <<0, 1>> ELSE <<2 * m, n * (n - 1)>>

\* lines 169-196, on the undirected projection
calculate_ego_density(U, node) ==
    LET neighbors == IF has_node(U, node) THEN UNeighbors(U, node) ELSE {}
        n == Cardinality(neighbors)
        m == Cardinality({e \in Edges(U) : e \subseteq neighbors})
    IN IF n < 2 THEN <<0, 1>> ELSE <<2 * m, n * (n - 1)>>

\* lines 199-218
get_strongly_connected_component_size(G, node) ==
    IF ~has_node(G, node) THEN 0
    ELSE Cardinality(Descendants(G, node) \cap Ancestors(G, node))

\* lines 221-240
calculate_reciprocity(G, node) ==
    IF ~has_node(G, node) THEN 0
    ELSE Cardinality({v \in Successors(G, node) : has_edge(G, v, node)})

RatLeq(a, b) == a[1] * b[2] <= b[1] * a[2]

(***************************************************************************)
(* metrics_core.py : calculate_all_metrics                                 *)
(***************************************************************************)
NoneDict == [is_none |-> TRUE]     \* Python None where a dict is expected
NotBuilt == [unbuilt |-> TRUE]     \* a graph variable not assigned yet
NotCalled == [uncalled |-> TRUE]   \* a result variable not assigned yet
ArgMax == <<"argmax">>             \* a node chosen by a floating-point maximum

EgoDensityThreshold == <<1, 20>>   \* ego_density_threshold = 0.05

\* lines 23-42: one score per node
calculate_pagerank(G) == [n \in NodeSet(G) |-> Float]

\* G.is_directed()
is_directed(G) == G.directed

\* the neighbours a shortest path may step to / come from
OutNeighbors(G, u) == IF is_directed(G) THEN Successors(G, u) ELSE UNeighbors(G, u)
InNeighbors(G, u) == IF is_directed(G) THEN Predecessors(G, u) ELSE UNeighbors(G, u)

RECURSIVE BreadthFirst(_, _, _, _)
\* nx betweenness, _single_source_shortest_path_basic: the breadth-first
\* search (weight=None) that gives every node t reached from the source its
\* distance D[t] and its number sigma[t] of shortest paths; found holds the
\* nodes up to distance d, frontier those at distance d
BreadthFirst(G, frontier, found, d) ==
    LET next == UNION {OutNeighbors(G, u) : u \in frontier} \ DOMAIN found
    IN IF next = {} THEN found
       ELSE BreadthFirst(G, next,
                found @@ [t \in next |->
                            [D |-> d + 1,
                             sigma |-> SumOver([u \in frontier \cap InNeighbors(G, t)
                                                   |-> found[u].sigma],
                                               frontier \cap InNeighbors(G, t))]],
                d + 1)

single_source_shortest_path_basic(G, s) ==
    BreadthFirst(G, {s}, s :> [D |-> 0, sigma |-> 1], 0)

\* the searches from every source, as one table
ShortestPaths(G) ==
    [s \in NodeSet(G) |-> single_source_shortest_path_basic(G, s)] @@ << >>

\* the number of shortest paths from s to t that pass through v
sigma_through(paths, s, t, v) ==
    IF /\ v \in DOMAIN paths[s]
       /\ t \in DOMAIN paths[v]
       /\ paths[s][v].D + paths[v][t].D = paths[s][t].D
    THEN paths[s][v].sigma * paths[v][t].sigma
    ELSE 0

RECURSIVE ProductOver(_, _)
ProductOver(f, S) ==
    IF S = {} THEN 1
    ELSE LET x == CHOOSE y \in S : TRUE
         IN f[x] * ProductOver(f, S \ {x})

\* the ordered pairs of distinct nodes joined by a path
ConnectedPairs(G, paths) ==
    {p \in NodeSet(G) \X NodeSet(G) : p[1] # p[2] /\ p[2] \in DOMAIN paths[p[1]]}

\* nx.betweenness_centrality(G, normalized=False): for each node v the sum
\* over s # v # t of sigma(s,t|v) / sigma(s,t), halved on an undirected
\* graph; the values are .num[v] / .den, .den being a common denominator of
\* the quotients
betweenness_centrality(G) ==
    LET paths == ShortestPaths(G)
        pairs == ConnectedPairs(G, paths)
        common == ProductOver([p \in pairs |-> paths[p[1]][p[2]].sigma], pairs)
    IN [num |-> [v \in NodeSet(G) |->
                    LET through == {p \in pairs : p[1] # v /\ p[2] # v}
                    IN SumOver([p \in through |->
                                   sigma_through(paths, p[1], p[2], v)
                                       * (common \div paths[p[1]][p[2]].sigma)],
                               through)] @@ << >>,
        den |-> IF is_directed(G) THEN common ELSE 2 * common]

MaxOf(f) == CHOOSE m \in {f[x] : x \in DOMAIN f} : \A x \in DOMAIN f : f[x] <= m

\* calculate_betweenness_centralization without its guards on the number of
\* nodes and on a zero denominator: the quotient keeps its denominator 0
calculate_betweenness_centralization_unguarded(G) ==
    IF number_of_nodes(G) = 0 THEN <<0, 1>>
    ELSE LET bc == betweenness_centrality(G)
             max_bc == MaxOf(bc.num)
             n == number_of_nodes(G)
             max_theoretical == IF is_directed(G)
                                THEN <<(n - 1) * (n - 2), 1>>
                                ELSE <<(n - 1) * (n - 2), 2>>
             sum_diff == SumOver([v \in NodeSet(G) |-> max_bc - bc.num[v]], NodeSet(G))
         IN <<sum_diff * max_theoretical[2], bc.den * max_theoretical[1]>>

\* metrics_core.py lines 86-115; the result is the rational
\* sum_diff / max_theoretical, 0.0 is <<0, 1>>
calculate_betweenness_centralization(G) ==
    IF number_of_nodes(G) < 2 THEN <<0, 1>>
    ELSE LET bc == betweenness_centrality(G)
             max_bc == MaxOf(bc.num)
             n == number_of_nodes(G)
             max_theoretical == IF is_directed(G)
                                THEN <<(n - 1) * (n - 2), 1>>
                                ELSE <<(n - 1) * (n - 2), 2>>
             sum_diff == SumOver([v \in NodeSet(G) |-> max_bc - bc.num[v]], NodeSet(G))
         IN IF n <= 2 THEN <<0, 1>>
            ELSE IF max_theoretical[1] = 0 THEN <<0, 1>>
            ELSE <<sum_diff * max_theoretical[2], bc.den * max_theoretical[1]>>

GraphNodes == {"A", "B", "C", "D"}

RECURSIVE SetToSeq(_)
SetToSeq(S) ==
    IF S = {} THEN << >>
    ELSE LET x == CHOOSE y \in S : TRUE
         IN <<x>> \o SetToSeq(S \ {x})

\* the nx.DiGraph objects without self-loops on the nodes S
DiGraphsOn(S) ==
    {[nodes |-> SetToSeq(S), weight |-> [e \in E |-> 1], directed |-> TRUE] :
        E \in SUBSET {p \in S \X S : p[1] # p[2]}}

\* the nx.Graph objects without self-loops on the nodes S
GraphsOn(S) ==
    {[nodes |-> SetToSeq(S), weight |-> [e \in E |-> 1], directed |-> FALSE] :
        E \in SUBSET {{p[1], p[2]} : p \in {q \in S \X S : q[1] # q[2]}}}

InitCentralization ==
    /\ \E S \in SUBSET GraphNodes :
           bc_graph \in DiGraphsOn(S) \/ bc_graph \in GraphsOn(S)
    /\ centralization = NotCalled
    /\ IdleMain
    /\ IdleMetrics
    /\ IdleNmi
    /\ IdleButCentralization

\* centralization = calculate_betweenness_centralization(bc_graph)
CalculateBetweennessCentralization ==
    /\ centralization = NotCalled
    /\ centralization' = calculate_betweenness_centralization(bc_graph)
    /\ UNCHANGED bc_graph
    /\ UNCHANGED varsButCentralization

NextCentralization == CalculateBetweennessCentralization

SpecCentralization == InitCentralization /\ [][NextCentralization]_vars

\* lines 239-245
BaseMetrics(t_start, t_end) ==
    [t_start |-> t_start, t_end |-> t_end,
     n_nodes |-> 0, n_edges |-> 0, density |-> <<0, 1>>]

\* lines 262-273
BurstAndRankMetrics(rows, G) ==
    [peak_mean |-> Len(rows),
     peak_median |-> Len(rows),
     pagerank_scores |-> calculate_pagerank(G),
     topk_pr_share_k5 |-> Float,
     topk_pr_share_k10 |-> Float]

\* lines 276-289
LeaderMetrics(G, leader) ==
    IF leader # None /\ has_node(G, leader)
    THEN [leader_pagerank |-> Float, leader_rank |-> Float]
    ELSE IF NodeSet(G) # {}
         THEN [inferred_leader |-> ArgMax, inferred_leader_pr |-> Float]
         ELSE << >>

\* VictimMetrics with the three conditions of the flag joined by "or"
VictimMetricsAnyCondition(G, U, victim, threshold) ==
    IF victim # None /\ has_node(G, victim)
    THEN LET r == calculate_reciprocity(G, victim)
             scc == get_strongly_connected_component_size(G, victim)
             ego == calculate_ego_density(U, victim)
         IN [victim_reciprocity |-> r,
             victim_scc_size |-> scc,
             victim_ego_density |-> ego,
             victim_is_isolated |-> (r = 0 \/ scc = 1 \/ RatLeq(ego, threshold))]
    ELSE [victim_reciprocity |-> 0,
          victim_scc_size |-> 0,
          victim_ego_density |-> <<0, 1>>,
          victim_is_isolated |-> FALSE]

\* lines 299-321
VictimMetrics(G, U, victim, threshold) ==
    IF victim # None /\ has_node(G, victim)
    THEN LET r == calculate_reciprocity(G, victim)
             scc == get_strongly_connected_component_size(G, victim)
             ego == calculate_ego_density(U, victim)
         IN [victim_reciprocity |-> r,
             victim_scc_size |-> scc,
             victim_ego_density |-> ego,
             victim_is_isolated |-> (r = 0 /\ scc = 1 /\ RatLeq(ego, threshold))]
    ELSE [victim_reciprocity |-> 0,
          victim_scc_size |-> 0,
          victim_ego_density |-> <<0, 1>>,
          victim_is_isolated |-> FALSE]

\* lines 324-343; labels maps a node to its 'skeptic' label.  Writing
\* G_undirected.nodes[node][...] for a node that is not in the graph raises
\* KeyError
SkepticMetrics(U, labels) ==
    IF labels # NoneDict /\ DOMAIN labels # {}
    THEN IF \E n \in DOMAIN labels : ~has_node(U, n)
         THEN Raised("KeyError")
         ELSE [assort_skeptic |->
                   IF number_of_nodes(U) < 2 \/ Cardinality(DOMAIN labels) < 2
                   THEN NaN ELSE Float,
               betweenness_share_skeptic |-> Float]
    ELSE [assort_skeptic |-> NaN, betweenness_share_skeptic |-> <<0, 1>>]

\* lines 346-351
VictimInShare(G, victim) ==
    IF victim # None /\ has_node(G, victim)
    THEN LET total == SumOver([n \in NodeSet(G) |-> Cardinality(Predecessors(G, n))],
                              NodeSet(G))
         IN [victim_inshare |->
                IF total > 0 THEN <<Cardinality(Predecessors(G, victim)), total>>
                ELSE <<0, 1>>]
    ELSE [victim_inshare |-> <<0, 1>>]

\* lines 355-372
CohesionMetrics(G, U, victim, density) ==
    [graph_density |-> density,
     avg_path_len |-> IF number_of_nodes(U) < 2 THEN NaN ELSE Float,
     eff_diameter |-> IF number_of_nodes(U) < 2 THEN <<0, 1>> ELSE Float,
     median_distance_to_victim |->
         IF victim # None /\ has_node(U, victim) /\ UNeighbors(U, victim) # {}
         THEN Float ELSE NaN,
     victim_inshare_half_life |-> NaN]

\* lines 239-374: the returned dict, or the exception that leaves the function
calculate_all_metrics(rows, t_start, t_end, victim, leader, labels) ==
    LET base == BaseMetrics(t_start, t_end)
        G == build_graph(rows)
        U == build_undirected_projection(G)
        graph_metadata == get_graph_metadata(G)
        skeptic == SkepticMetrics(U, labels)
    IN IF Len(rows) = 0 THEN base
       ELSE IF IsRaised(graph_metadata) THEN graph_metadata
       ELSE IF number_of_nodes(G) = 0 THEN graph_metadata @@ base
       ELSE IF IsRaised(skeptic) THEN skeptic
       ELSE CohesionMetrics(G, U, victim, graph_metadata.density)
            @@ VictimInShare(G, victim)
            @@ skeptic
            @@ VictimMetrics(G, U, victim, EgoDensityThreshold)
            @@ [communities |-> NoneDict]
            @@ [betweenness_centralization |-> calculate_betweenness_centralization(G)]
            @@ LeaderMetrics(G, leader)
            @@ BurstAndRankMetrics(rows, G)
            @@ graph_metadata
            @@ base

(***************************************************************************)
(* The metrics engine and the graph builder on one window's interactions   *)
(***************************************************************************)
InteractionRows(n) == SeqsUpTo([src : Nodes, dst : Nodes], n)

NodeLabelChoices ==
    {NoneDict} \cup UNION {[S -> {0, 1}] : S \in SUBSET Nodes}

InitMetrics ==
    /\ interactions_df \in InteractionRows(MaxMetricRows)
    /\ victim_id \in {None, "A"}
    /\ leader_id \in {None, "A"}
    /\ node_labels \in NodeLabelChoices
    /\ G_directed = NotBuilt
    /\ G_undirected = NotBuilt
    /\ metrics = NotCalled
    /\ IdleMain
    /\ IdleNmi
    /\ IdleAux

\* metrics = calculate_all_metrics(interactions_df, t_start, t_end, ...)
CalculateAllMetrics ==
    /\ metrics = NotCalled
    /\ metrics' = calculate_all_metrics(interactions_df, 0, 1,
                                        victim_id, leader_id, node_labels)
    /\ UNCHANGED <<interactions_df, victim_id, leader_id, node_labels,
                   G_directed, G_undirected>>
    /\ UNCHANGED <<varsMain, varsNmi, varsAux>>

NextMetrics == CalculateAllMetrics

SpecMetrics == InitMetrics /\ [][NextMetrics]_vars

\* calculate_all_metrics called with a target only (no leader, no labels),
\* on windows long enough for the target's neighbours to be linked
InitVictimMetrics ==
    /\ interactions_df \in InteractionRows(MaxRows)
    /\ victim_id \in {None, "A"}
    /\ leader_id = None
    /\ node_labels = NoneDict
    /\ G_directed = NotBuilt
    /\ G_undirected = NotBuilt
    /\ metrics = NotCalled
    /\ IdleMain
    /\ IdleNmi
    /\ IdleAux

SpecVictimMetrics == InitVictimMetrics /\ [][NextMetrics]_vars

InitGraph ==
    /\ interactions_df \in InteractionRows(MaxRows)
    /\ victim_id = None
    /\ leader_id = None
    /\ node_labels = NoneDict
    /\ G_directed = NotBuilt
    /\ G_undirected = NotBuilt
    /\ metrics = NotCalled
    /\ IdleMain
    /\ IdleNmi
    /\ IdleAux

\* G_directed = build_graph(interactions_df, directed=True)
BuildGraph ==
    /\ G_directed = NotBuilt
    /\ G_directed' = build_graph(interactions_df)
    /\ UNCHANGED <<interactions_df, victim_id, leader_id, node_labels,
                   G_undirected, metrics>>
    /\ UNCHANGED <<varsMain, varsNmi, varsAux>>

\* G_undirected = build_undirected_projection(G_directed)
BuildUndirectedProjection ==
    /\ G_directed # NotBuilt
    /\ G_undirected = NotBuilt
    /\ G_undirected' = build_undirected_projection(G_directed)
    /\ UNCHANGED <<interactions_df, victim_id, leader_id, node_labels,
                   G_directed, metrics>>
    /\ UNCHANGED <<varsMain, varsNmi, varsAux>>

NextGraph == BuildGraph \/ BuildUndirectedProjection

SpecGraph == InitGraph /\ [][NextGraph]_vars

\* Scenario B of the specification: windows made of the interactions
\* (A,B), (B,A), (C,D), in any order and with repetitions, target A
MaxScenarioRows == 4

ScenarioB == {[src |-> "A", dst |-> "B"], [src |-> "B", dst |-> "A"],
              [src |-> "C", dst |-> "D"]}

InitScenarioB ==
    /\ interactions_df \in SeqsUpTo(ScenarioB, MaxScenarioRows)
    /\ victim_id = "A"
    /\ leader_id = None
    /\ node_labels = NoneDict
    /\ G_directed = NotBuilt
    /\ G_undirected = NotBuilt
    /\ metrics = NotCalled
    /\ IdleMain
    /\ IdleNmi
    /\ IdleAux

NextScenarioB == BuildGraph \/ BuildUndirectedProjection \/ CalculateAllMetrics

SpecScenarioB == InitScenarioB /\ [][NextScenarioB]_vars

(***************************************************************************)
(* community.py : calculate_nmi                                            *)
(*                                                                         *)
(* sklearn's normalized_mutual_info_score in exact arithmetic.  With N     *)
(* samples, contingency counts n_ab and marginals A_a, B_b, the numbers    *)
(* exp(N*MI) = prod (N*n_ab / (A_a*B_b))^n_ab and                          *)
(* exp(N*H) = prod (N/A_a)^A_a are rationals, kept as the vector of their  *)
(* prime exponents; two of them are equal exactly when the vectors are.    *)
(* A score is <<"1.0">>, <<"0.0">>, or <<"ratio", v, w>> standing for      *)
(* log(v) / log(w) with 0 < log(v) < log(w) or v, w otherwise unrelated.   *)
(***************************************************************************)
NmiOne == <<"1.0">>
NmiZero == <<"0.0">>

Primes ==
    {p \in 2..Cardinality(PartitionNodes) : \A d \in 2..(p - 1) : p % d # 0}

RECURSIVE Valuation(_, _)
\* exponent of the prime p in n >= 1
Valuation(p, n) == IF n % p = 0 THEN 1 + Valuation(p, n \div p) ELSE 0

Labels(l) == {l[x] : x \in DOMAIN l}
Marginal(l, a) == Cardinality({x \in DOMAIN l : l[x] = a})
Contingency(l1, l2, a, b) == Cardinality({x \in DOMAIN l1 : l1[x] = a /\ l2[x] = b})

\* exponents of exp(N * H(l))
EntropyVector(l) ==
    LET N == Cardinality(DOMAIN l)
    IN [p \in Primes |->
           SumOver([a \in Labels(l) |->
                       Marginal(l, a) * (Valuation(p, N) - Valuation(p, Marginal(l, a)))],
                   Labels(l))]

\* exponents of exp(N * MI(l1, l2))
MutualInfoVector(l1, l2) ==
    LET N == Cardinality(DOMAIN l1)
        cells == {c \in Labels(l1) \X Labels(l2) : Contingency(l1, l2, c[1], c[2]) > 0}
    IN [p \in Primes |->
           SumOver([c \in cells |->
                       Contingency(l1, l2, c[1], c[2])
                         * (Valuation(p, N) + Valuation(p, Contingency(l1, l2, c[1], c[2]))
                              - Valuation(p, Marginal(l1, c[1]))
                              - Valuation(p, Marginal(l2, c[2])))],
                   cells)]

ZeroVector == [p \in Primes |-> 0]

\* the score without the limit case of two unsplit labelings
normalized_mutual_info_score_nolimit(l1, l2) ==
    LET mi == MutualInfoVector(l1, l2)
        twice == [p \in Primes |-> 2 * mi[p]]
        h == [p \in Primes |-> EntropyVector(l1)[p] + EntropyVector(l2)[p]]
    IN IF mi = ZeroVector THEN NmiZero
       ELSE IF twice = h THEN NmiOne
       ELSE <<"ratio", twice, h>>

\* sklearn.metrics.normalized_mutual_info_score (arithmetic mean), called at
\* community.py line 178: 1.0 when neither labeling is split, 0.0 when
\* MI = 0, else MI / ((H1 + H2) / 2)
normalized_mutual_info_score(l1, l2) ==
    LET mi == MutualInfoVector(l1, l2)
        twice == [p \in Primes |-> 2 * mi[p]]
        h == [p \in Primes |-> EntropyVector(l1)[p] + EntropyVector(l2)[p]]
    IN IF Cardinality(Labels(l1)) = 1 /\ Cardinality(Labels(l2)) = 1 THEN NmiOne
       ELSE IF mi = ZeroVector THEN NmiZero
       ELSE IF twice = h THEN NmiOne
       ELSE <<"ratio", twice, h>>

\* calculate_nmi with the common-node floor lowered to 1
calculate_nmi_floor1(c1, c2) ==
    IF c1 = NoneDict \/ c2 = NoneDict \/ DOMAIN c1 = {} \/ DOMAIN c2 = {} THEN NaN
    ELSE LET common_nodes == DOMAIN c1 \cap DOMAIN c2
         IN IF Cardinality(common_nodes) < 1 THEN NaN
            ELSE normalized_mutual_info_score([n \in common_nodes |-> c1[n]],
                                              [n \in common_nodes |-> c2[n]])

\* community.py lines 164-180
calculate_nmi(c1, c2) ==
    IF c1 = NoneDict \/ c2 = NoneDict \/ DOMAIN c1 = {} \/ DOMAIN c2 = {} THEN NaN
    ELSE LET common_nodes == DOMAIN c1 \cap DOMAIN c2
         IN IF Cardinality(common_nodes) < 2 THEN NaN
            ELSE normalized_mutual_info_score([n \in common_nodes |-> c1[n]],
                                              [n \in common_nodes |-> c2[n]])

\* metrics_core.py lines 391-407
calculate_nmi_between_communities(c1, c2) ==
    IF c1 = NoneDict \/ c2 = NoneDict \/ DOMAIN c1 = {} \/ DOMAIN c2 = {} THEN NaN
    ELSE LET common_nodes == DOMAIN c1 \cap DOMAIN c2
         IN IF Cardinality(common_nodes) < 2 THEN NaN
            ELSE normalized_mutual_info_score([n \in common_nodes |-> c1[n]],
                                              [n \in common_nodes |-> c2[n]])

PartitionChoices == UNION {[S -> 0..MaxComm] : S \in SUBSET PartitionNodes}

InitNmi ==
    /\ communities1 \in PartitionChoices
    /\ communities2 \in PartitionChoices
    /\ nmi = <<"unset">>
    /\ nmi_core = <<"unset">>
    /\ IdleMain
    /\ IdleMetrics
    /\ IdleAux

\* nmi = calculate_nmi(communities1, communities2)
CalculateNmi ==
    /\ nmi = <<"unset">>
    /\ nmi' = calculate_nmi(communities1, communities2)
    /\ UNCHANGED <<communities1, communities2, nmi_core>>
    /\ UNCHANGED <<varsMain, varsMetrics, varsAux>>

\* nmi_core = calculate_nmi_between_communities(communities1, communities2)
CalculateNmiBetweenCommunities ==
    /\ nmi # <<"unset">>
    /\ nmi_core = <<"unset">>
    /\ nmi_core' = calculate_nmi_between_communities(communities1, communities2)
    /\ UNCHANGED <<communities1, communities2, nmi>>
    /\ UNCHANGED <<varsMain, varsMetrics, varsAux>>

NextNmi == CalculateNmi \/ CalculateNmiBetweenCommunities

SpecNmi == InitNmi /\ [][NextNmi]_vars

(***************************************************************************)
(* community.py : detect_communities and its two back ends                 *)
(*                                                                         *)
(* The libraries (leidenalg / igraph, networkx louvain_communities) either *)
(* return a partition of the vertices, numbered 0..k-1, or raise; which of *)
(* the two happens is not decided by this code, so both are steps of the   *)
(* model.  Every exception of a back end is caught by "except Exception".  *)
(***************************************************************************)
Methods == {"auto", "leiden", "louvain"}

\* a membership as the libraries return it: every vertex gets one id and
\* the ids in use are 0..k-1
Memberships(G) ==
    {c \in [NodeSet(G) -> 0..(number_of_nodes(G) - 1)] :
        \A id \in 0..(number_of_nodes(G) - 1) :
            (\E n \in NodeSet(G) : c[n] = id)
                => \A lower \in 0..id : \E n \in NodeSet(G) : c[n] = lower}

\* the except branch of line 147 with every node in community 0
SingletonFallbackMerged(G) == [n \in NodeSet(G) |-> 0]

\* community.py line 147: {node: i for i, node in enumerate(G.nodes())}
SingletonFallback(G) == [n \in NodeSet(G) |-> IndexOf(G.nodes, n) - 1]

\* community.py lines 50-52: the method after "auto" is resolved
ResolvedMethod ==
    IF method = "auto"
    THEN (IF LEIDEN_AVAILABLE THEN "leiden" ELSE "louvain")
    ELSE method

\* community.py lines 44-57: detect_communities up to the dispatch
DetectCommunities ==
    /\ dc_pc = "call"
    /\ IF number_of_nodes(G_directed) = 0
       THEN /\ node_to_community' = << >>
            /\ dc_pc' = "returned"
       ELSE IF number_of_nodes(G_directed) = 1
       THEN /\ node_to_community' = [n \in NodeSet(G_directed) |-> 0]
            /\ dc_pc' = "returned"
       ELSE IF ResolvedMethod = "leiden" /\ LEIDEN_AVAILABLE
       THEN /\ dc_pc' = "leiden"
            /\ UNCHANGED node_to_community
       ELSE /\ dc_pc' = "louvain"
            /\ UNCHANGED node_to_community
    /\ UNCHANGED <<method, LEIDEN_AVAILABLE, tried>>
    /\ UNCHANGED varsButCommunity

\* community.py lines 75-104: the try block of _detect_communities_leiden
\* runs to its return
LeidenReturns ==
    /\ dc_pc = "leiden"
    /\ \E membership \in Memberships(G_directed) :
           node_to_community' = membership
    /\ tried' = Append(tried, "leiden")
    /\ dc_pc' = "returned"
    /\ UNCHANGED <<method, LEIDEN_AVAILABLE>>
    /\ UNCHANGED varsButCommunity

\* community.py lines 106-108: except Exception, fall back to Louvain
LeidenFails ==
    /\ dc_pc = "leiden"
    /\ tried' = Append(tried, "leiden")
    /\ dc_pc' = "louvain"
    /\ UNCHANGED <<method, LEIDEN_AVAILABLE, node_to_community>>
    /\ UNCHANGED varsButCommunity

\* community.py lines 126-142: the try block of _detect_communities_louvain
\* runs to its return
LouvainReturns ==
    /\ dc_pc = "louvain"
    /\ \E membership \in Memberships(G_directed) :
           node_to_community' = membership
    /\ tried' = Append(tried, "louvain")
    /\ dc_pc' = "returned"
    /\ UNCHANGED <<method, LEIDEN_AVAILABLE>>
    /\ UNCHANGED varsButCommunity

\* community.py lines 144-147: except Exception, one community per node
LouvainFails ==
    /\ dc_pc = "louvain"
    /\ node_to_community' = SingletonFallback(G_directed)
    /\ tried' = Append(tried, "singletons")
    /\ dc_pc' = "returned"
    /\ UNCHANGED <<method, LEIDEN_AVAILABLE>>
    /\ UNCHANGED varsButCommunity

InitCommunity ==
    /\ interactions_df \in InteractionRows(MaxRows)
    /\ G_directed = build_graph(interactions_df)
    /\ victim_id = None
    /\ leader_id = None
    /\ node_labels = NoneDict
    /\ G_undirected = NotBuilt
    /\ metrics = NotCalled
    /\ method \in Methods
    /\ LEIDEN_AVAILABLE \in BOOLEAN
    /\ dc_pc = "call"
    /\ tried = << >>
    /\ node_to_community = NotCalled
    /\ IdleMain
    /\ IdleNmi
    /\ IdleButCommunity

NextCommunity ==
    \/ DetectCommunities
    \/ LeidenReturns
    \/ LeidenFails
    \/ LouvainReturns
    \/ LouvainFails

SpecCommunity == InitCommunity /\ [][NextCommunity]_vars

(***************************************************************************)
(* metrics_core.py : calculate_topk_share                                  *)
(*                                                                         *)
(* Scores are integers from -1 up and k is a count, so the sums and the    *)
(* quotient are exact; a share is the pair <<top-k sum, total>> standing   *)
(* for their quotient, the float 0.0 is <<0, 1>>.                          *)
(***************************************************************************)
MaxScore == 2
MaxK == 4

ScoreMaps == UNION {[S -> (0 - 1)..MaxScore] : S \in SUBSET Nodes}

\* sorted(..., key=score): the scores in ascending order
RECURSIVE SortedAscending(_, _)
SortedAscending(f, S) ==
    IF S = {} THEN << >>
    ELSE LET m == CHOOSE x \in S : \A y \in S : f[x] <= f[y]
         IN <<f[m]>> \o SortedAscending(f, S \ {m})

\* metrics_core.py line 137: sorted(..., key=score, reverse=True), the
\* scores in descending order
RECURSIVE SortedDescending(_, _)
SortedDescending(f, S) ==
    IF S = {} THEN << >>
    ELSE LET m == CHOOSE x \in S : \A y \in S : f[y] <= f[x]
         IN <<f[m]>> \o SortedDescending(f, S \ {m})

\* the slice s[:k] of Python for k >= 0
Slice(s, k) == SubSeq(s, 1, IF k < Len(s) THEN k ELSE Len(s))

SumSeq(s) == SumOver(s, DOMAIN s)

\* calculate_topk_share without the guard on a zero total: the division
\* 0 / 0 raises ZeroDivisionError
calculate_topk_share_unguarded(scores, k) ==
    IF DOMAIN scores = {} THEN <<0, 1>>
    ELSE LET total_score == SumOver(scores, DOMAIN scores)
             sorted_nodes == SortedDescending(scores, DOMAIN scores)
             topk_score == SumSeq(Slice(sorted_nodes, k))
         IN IF total_score = 0 THEN <<"ZeroDivisionError">>
            ELSE <<topk_score, total_score>>

\* calculate_topk_share with the sort in ascending order
calculate_topk_share_ascending(scores, k) ==
    IF DOMAIN scores = {} THEN <<0, 1>>
    ELSE LET total_score == SumOver(scores, DOMAIN scores)
         IN IF total_score = 0 THEN <<0, 1>>
            ELSE LET sorted_nodes == SortedAscending(scores, DOMAIN scores)
                     topk_score == SumSeq(Slice(sorted_nodes, k))
                 IN <<topk_score, total_score>>

\* metrics_core.py lines 129-140
calculate_topk_share(scores, k) ==
    IF DOMAIN scores = {} THEN <<0, 1>>
    ELSE LET total_score == SumOver(scores, DOMAIN scores)
         IN IF total_score = 0 THEN <<0, 1>>
            ELSE LET sorted_nodes == SortedDescending(scores, DOMAIN scores)
                     topk_score == SumSeq(Slice(sorted_nodes, k))
                 IN <<topk_score, total_score>>

InitTopk ==
    /\ pr_scores \in ScoreMaps
    /\ topk_shares = << >>
    /\ IdleMain
    /\ IdleMetrics
    /\ IdleNmi
    /\ IdleButTopk

\* metrics_core.py lines 272-273: one pass of "for k in topk_values"
CalculateTopkShare ==
    /\ \E k \in (0..MaxK) \ DOMAIN topk_shares :
           topk_shares' = (k :> calculate_topk_share(pr_scores, k)) @@ topk_shares
    /\ UNCHANGED pr_scores
    /\ UNCHANGED varsButTopk

NextTopk == CalculateTopkShare

SpecTopk == InitTopk /\ [][NextTopk]_vars

(***************************************************************************)
(* windows.py : WindowProcessor ; community.py : community detection       *)
(***************************************************************************)
get_window_data_closed(d, t_start, t_end) ==
    SelectSeq(d, LAMBDA r : r.timestamp >= t_start /\ r.timestamp <= t_end)

\* lines 102-105: rows with t_start <= timestamp < t_end, in order
get_window_data(d, t_start, t_end) ==
    SelectSeq(d, LAMBDA r : r.timestamp >= t_start /\ r.timestamp < t_end)

\* lines 130-158 (no case column)
get_window_metadata(d, t_start, t_end) ==
    LET window_df == get_window_data(d, t_start, t_end)
        all_nodes == {window_df[k].src : k \in 1..Len(window_df)}
                        \cup {window_df[k].dst : k \in 1..Len(window_df)}
        n_nodes == Cardinality(all_nodes)
        n_edges == Len(window_df)
        max_edges == IF n_nodes > 1 THEN n_nodes * (n_nodes - 1) ELSE 0
    IN IF Len(window_df) = 0
       THEN [t_start |-> t_start, t_end |-> t_end, n_nodes |-> 0, n_edges |-> 0,
             density |-> <<0, 1>>, case_id |-> None]
       ELSE [t_start |-> t_start, t_end |-> t_end,
             n_nodes |-> n_nodes, n_edges |-> n_edges,
             density |-> IF max_edges > 0 THEN <<n_edges, max_edges>> ELSE <<0, 1>>,
             case_id |-> None]

\* community.py lines 44-57: the empty graph and the single node are decided
\* by the code; otherwise Leiden / Louvain / the singleton fallback return
\* some assignment of the ids 0..k-1 to the nodes
DetectedCommunities(G) ==
    IF number_of_nodes(G) = 0 THEN {<< >>}
    ELSE IF number_of_nodes(G) = 1 THEN {[n \in NodeSet(G) |-> 0]}
    ELSE {c \in [NodeSet(G) -> 0..MaxComm] :
             \A id \in 0..MaxComm : (\E n \in NodeSet(G) : c[n] = id)
                 => \A lower \in 0..id : \E n \in NodeSet(G) : c[n] = lower}

\* community.py lines 267-296
calculate_community_metrics(G, communities) ==
    IF DOMAIN communities = {}
    THEN [n_communities |-> 0, modularity |-> <<0, 1>>,
          largest_community_size |-> 0, largest_community_id |-> None,
          avg_community_size |-> <<0, 1>>, community_size_std |-> <<0, 1>>]
    ELSE LET ids == Labels(communities)
             size == [c \in ids |-> Marginal(communities, c)]
         IN [n_communities |-> Cardinality(ids),
             modularity |-> Float,
             largest_community_size |->
                 CHOOSE m \in {size[c] : c \in ids} : \A c \in ids : size[c] <= m,
             largest_community_id |-> ArgMax,
             avg_community_size |-> <<Cardinality(DOMAIN communities), Cardinality(ids)>>,
             community_size_std |-> IF Cardinality(ids) > 1 THEN Float ELSE <<0, 1>>]

(***************************************************************************)
(* burst.py : find_onset_climax                                            *)
(*                                                                         *)
(* A series is a sequence of numbers with the default index 0, 1, ...;     *)
(* position k of the sequence is the index label k - 1.  In the calls of   *)
(* SpecOnsetClimax one unit of a value is 0.05, so that the prominence 0.1 *)
(* of line 116 is 2 units.                                                 *)
(***************************************************************************)
NoIndex == 0 - 1          \* Python None where a row index is expected
OnsetThreshold == 3       \* onset_threshold = 3.0
Prominence == 2           \* prominence = 0.1, in units of 0.05
DefaultSmoothing == 3     \* window_size = 3
NaNIndex == 0 - 2         \* float NaN where a row index is expected
NoPosition == 0           \* argmax of a series whose entries are all NaN

\* Series.idxmax() over the positions P of x (skipna): the first position
\* of the largest value
idxmax(x, P) ==
    IF P = {} THEN NoPosition
    ELSE CHOOSE k \in P :
             /\ \A j \in P : x[j] <= x[k]
             /\ \A j \in P : x[j] = x[k] => k <= j

\* scipy.signal._local_maxima_1d on the positions lo..Len(x) of x: the
\* midpoints of the plateaus that rise from and fall to a lower sample, the
\* first and the last sample never belonging to one
local_maxima(x, lo) ==
    {m \in lo..Len(x) :
        \E l \in (lo + 1)..m, r \in m..(Len(x) - 1) :
            /\ m = (l + r) \div 2
            /\ \A j \in l..r : x[j] = x[l]
            /\ x[l - 1] < x[l]
            /\ x[r + 1] < x[r]}

\* scipy.signal.peak_prominences (wlen = None) of the peak p within lo..Len(x)
peak_prominence(x, lo, p) ==
    LET higher_left == {j \in lo..(p - 1) : x[j] > x[p]}
        higher_right == {j \in (p + 1)..Len(x) : x[j] > x[p]}
        left_from == IF higher_left = {} THEN lo
                     ELSE 1 + CHOOSE j \in higher_left : \A h \in higher_left : h <= j
        right_to == IF higher_right = {} THEN Len(x)
                    ELSE (CHOOSE j \in higher_right : \A h \in higher_right : j <= h) - 1
        left_min == CHOOSE v \in {x[j] : j \in left_from..p} :
                        \A j \in left_from..p : v <= x[j]
        right_min == CHOOSE v \in {x[j] : j \in p..right_to} :
                         \A j \in p..right_to : v <= x[j]
    IN x[p] - (IF left_min >= right_min THEN left_min ELSE right_min)

\* find_peaks(post_onset.values, prominence = ...): positions in ascending order
find_peaks(x, lo, prominence) ==
    {p \in local_maxima(x, lo) : peak_prominence(x, lo, p) >= prominence}

\* values.rolling(window = w, center = True).mean(): the positions whose
\* window lies inside the series (min_periods = w; the others are NaN), and
\* w times the mean there
rolling_defined(x, w) ==
    LET offset == (w - 1) \div 2
    IN {k \in 1..Len(x) : k - w + 1 + offset >= 1 /\ k + offset <= Len(x)}

rolling_sum(x, w) ==
    LET offset == (w - 1) \div 2
    IN [k \in rolling_defined(x, w) |->
           SumOver([j \in 1..Len(x) |-> x[j]], (k - w + 1 + offset)..(k + offset))]

\* lines 92-129; the pair <<onset, climax>> of index labels, the climax
\* being NaNIndex where idxmax is applied to NaN entries only and returns
find_onset_climax_by_whole_series(values, onset_threshold, climax_method, smoothing) ==
    LET above == {k \in 1..Len(values) : values[k] >= onset_threshold}
    IN IF above = {} THEN <<NoIndex, NoIndex>>
       ELSE LET onset == CHOOSE k \in above : \A j \in above : k <= j
                whole == 1..Len(values)
                peaks == find_peaks(values, 1, Prominence)
                smoothed == rolling_sum(values, smoothing)
                climax ==
                    CASE climax_method = "global_max" -> idxmax(values, whole)
                      [] climax_method = "local_max" ->
                             IF peaks # {}
                             THEN CHOOSE p \in peaks : \A q \in peaks : p <= q
                             ELSE idxmax(values, whole)
                      [] climax_method = "smoothed" ->
                             idxmax(smoothed, whole \cap DOMAIN smoothed)
            IN <<onset - 1, IF climax = NoPosition THEN NaNIndex ELSE climax - 1>>

find_onset_climax_by(values, onset_threshold, climax_method, smoothing) ==
    LET above == {k \in 1..Len(values) : values[k] >= onset_threshold}
    IN IF above = {} THEN <<NoIndex, NoIndex>>
       ELSE LET onset == CHOOSE k \in above : \A j \in above : k <= j
                post == onset..Len(values)
                peaks == find_peaks(values, onset, Prominence)
                smoothed == rolling_sum(values, smoothing)
                climax ==
                    CASE climax_method = "global_max" -> idxmax(values, post)
                      [] climax_method = "local_max" ->
                             IF peaks # {}
                             THEN CHOOSE p \in peaks : \A q \in peaks : p <= q
                             ELSE idxmax(values, post)
                      [] climax_method = "smoothed" ->
                             idxmax(smoothed, post \cap DOMAIN smoothed)
            IN <<onset - 1, IF climax = NoPosition THEN NaNIndex ELSE climax - 1>>

\* the call of cli_compute.py line 308: every argument but the series at
\* its default
find_onset_climax_above_threshold(values) ==
    find_onset_climax_by(values, OnsetThreshold + 1, "global_max", DefaultSmoothing)

find_onset_climax(values) ==
    find_onset_climax_by(values, OnsetThreshold, "global_max", DefaultSmoothing)

MaxSeriesLen == 4
MaxValue == 3
MaxSmoothing == 3

ClimaxMethods == {"global_max", "local_max", "smoothed"}

Series == SeqsUpTo(0..MaxValue, MaxSeriesLen)

InitOnsetClimax ==
    /\ ts \in Series
    /\ onset_climax = NotCalled
    /\ bursts = NotCalled
    /\ IdleMain
    /\ IdleMetrics
    /\ IdleNmi
    /\ IdleButBurst

\* one call; idxmax of an all-NaN series returns NaN up to pandas 2 and
\* raises ValueError from pandas 3 on
FindOnsetClimax ==
    /\ onset_climax = NotCalled
    /\ \E onset_threshold \in 0..(MaxValue + 1), climax_method \in ClimaxMethods,
          smoothing \in 1..MaxSmoothing :
          LET found == find_onset_climax_by(ts, onset_threshold, climax_method, smoothing)
          IN \E result \in IF found[2] = NaNIndex
                           THEN {[returned |-> found], Raised("ValueError")}
                           ELSE {[returned |-> found]} :
                 onset_climax' = [onset_threshold |-> onset_threshold,
                                  climax_method |-> climax_method,
                                  window_size |-> smoothing,
                                  result |-> result]
    /\ UNCHANGED <<ts, bursts>>
    /\ UNCHANGED varsButBurst

NextOnsetClimax == FindOnsetClimax

SpecOnsetClimax == InitOnsetClimax /\ [][NextOnsetClimax]_vars

(***************************************************************************)
(* burst.py : detect_burst                                                 *)
(*                                                                         *)
(* Thresholds are compared in exact arithmetic: the percentile as a        *)
(* multiple of 1/100, mean + k * std through the squares.                  *)
(***************************************************************************)
MaxMinBurstLength == 2

Percentiles == {0, 50, 90, 95, 100}     \* threshold_value of "percentile"
StdMultipliers == 0..2                  \* threshold_value of "std"
FixedThresholds == 0..(MaxValue + 1)    \* threshold_value of "fixed"

ThresholdMethods == {"percentile", "std", "fixed"}

ThresholdValues(threshold_method) ==
    CASE threshold_method = "percentile" -> Percentiles
      [] threshold_method = "std" -> StdMultipliers
      [] threshold_method = "fixed" -> FixedThresholds

\* the k-th smallest entry of x, k = 1..Len(x)
OrderStatistic(x, k) ==
    CHOOSE v \in Range(x) :
        /\ Cardinality({j \in 1..Len(x) : x[j] < v}) < k
        /\ k <= Cardinality({j \in 1..Len(x) : x[j] <= v})

\* 100 * np.percentile(x, q): linear interpolation between the order
\* statistics around the position q / 100 * (n - 1)
percentile_x100(x, q) ==
    LET n == Len(x)
        lo == (q * (n - 1)) \div 100
        rem == (q * (n - 1)) % 100
        a == OrderStatistic(x, lo + 1)
        b == OrderStatistic(x, IF lo + 2 <= n THEN lo + 2 ELSE n)
    IN 100 * a + rem * (b - a)

\* lines 39-51: values >= threshold at the entry v
MeetsThreshold(x, threshold_method, threshold_value, v) ==
    LET n == Len(x)
        total == SumOver(x, 1..n)
        squares == SumOver([j \in 1..n |-> x[j] * x[j]], 1..n)
        d == n * v - total          \* n * (v - mean)
    IN CASE threshold_method = "percentile" ->
                100 * v >= percentile_x100(x, threshold_value)
         [] threshold_method = "std" ->
                \* v - mean >= k * std, with n^2 * std^2 = n * squares - total^2
                /\ d >= 0
                /\ d * d >= threshold_value * threshold_value * (n * squares - total * total)
         [] threshold_method = "fixed" ->
                v >= threshold_value

\* a finite set of integers as an ascending sequence (np.where)
Ascending(S) ==
    [k \in 1..Cardinality(S) |-> CHOOSE v \in S : Cardinality({w \in S : w < v}) = k - 1]

\* lines 35-71; the list of pairs <<start, end>>
detect_burst_interior_only(x, threshold_method, threshold_value, min_burst_length) ==
    IF Len(x) = 0 THEN << >>
    ELSE LET n == Len(x)
             burst_mask == [k \in 1..n |->
                               MeetsThreshold(x, threshold_method, threshold_value, x[k])]
             diff == [j \in 1..(n - 1) |->
                         (IF burst_mask[j + 1] THEN 1 ELSE 0) - (IF burst_mask[j] THEN 1 ELSE 0)]
             starts == Ascending({j \in 1..(n - 1) : diff[j] = 1})
             ends == Ascending({j \in 1..(n - 1) : diff[j] = 0 - 1})
             pairs == [k \in 1..(IF Len(starts) <= Len(ends) THEN Len(starts) ELSE Len(ends)) |->
                          <<starts[k], ends[k]>>]
         IN IF \E k \in 1..n : burst_mask[k]
            THEN SelectSeq(pairs, LAMBDA p : p[2] - p[1] >= min_burst_length)
            ELSE << >>

detect_burst(x, threshold_method, threshold_value, min_burst_length) ==
    IF Len(x) = 0 THEN << >>
    ELSE LET n == Len(x)
             burst_mask == [k \in 1..n |->
                               MeetsThreshold(x, threshold_method, threshold_value, x[k])]
             \* np.diff(burst_mask.astype(int)); diff[j] is entry j - 1 of the array
             diff == [j \in 1..(n - 1) |->
                         (IF burst_mask[j + 1] THEN 1 ELSE 0) - (IF burst_mask[j] THEN 1 ELSE 0)]
             inner_starts == Ascending({j \in 1..(n - 1) : diff[j] = 1})
             inner_ends == Ascending({j \in 1..(n - 1) : diff[j] = 0 - 1})
             starts == IF burst_mask[1] THEN <<0>> \o inner_starts ELSE inner_starts
             ends == IF burst_mask[n] THEN inner_ends \o <<n>> ELSE inner_ends
             \* zip(starts, ends)
             pairs == [k \in 1..(IF Len(starts) <= Len(ends) THEN Len(starts) ELSE Len(ends)) |->
                          <<starts[k], ends[k]>>]
         IN IF \E k \in 1..n : burst_mask[k]
            THEN SelectSeq(pairs, LAMBDA p : p[2] - p[1] >= min_burst_length)
            ELSE << >>

InitBurst ==
    /\ ts \in Series
    /\ onset_climax = NotCalled
    /\ bursts = NotCalled
    /\ IdleMain
    /\ IdleMetrics
    /\ IdleNmi
    /\ IdleButBurst

DetectBurst ==
    /\ bursts = NotCalled
    /\ \E threshold_method \in ThresholdMethods, min_burst_length \in 1..MaxMinBurstLength :
          \E threshold_value \in ThresholdValues(threshold_method) :
              bursts' = [threshold_method |-> threshold_method,
                         threshold_value |-> threshold_value,
                         min_burst_length |-> min_burst_length,
                         result |-> detect_burst(ts, threshold_method, threshold_value,
                                                 min_burst_length)]
    /\ UNCHANGED <<ts, onset_climax>>
    /\ UNCHANGED varsButBurst

NextBurst == DetectBurst

SpecBurst == InitBurst /\ [][NextBurst]_vars


(***************************************************************************)
(* metrics_core.py : calculate_time_to_isolation                           *)
(***************************************************************************)
MaxSeriesRows == 3
MaxMinWindows == 2

\* lines 471-475 at one row of the frame
IsIsolatedRow(row, ego_density_threshold) ==
    /\ row.victim_reciprocity = 0
    /\ row.victim_scc_size = 1
    /\ RatLeq(row.victim_ego_density, ego_density_threshold)

\* lines 467-482 on a frame with the default index 0, 1, ...; NoIndex is None
calculate_time_to_isolation(frame, ego_density_threshold, min_windows) ==
    IF Len(frame) = 0 THEN NoIndex
    ELSE LET isolated_windows == {k \in 1..Len(frame) :
                                     IsIsolatedRow(frame[k], ego_density_threshold)}
         IN IF Cardinality(isolated_windows) >= min_windows
            THEN \* isolated_windows[0]; with min_windows <= 0 and no isolated
                 \* window the subscript raises IndexError
                 (CHOOSE k \in isolated_windows : \A j \in isolated_windows : k <= j) - 1
            ELSE NoIndex

\* rows of victim metrics: an ego density of 0, of the threshold 0.05, of 0.5
VictimRows ==
    [victim_reciprocity : 0..1, victim_scc_size : 1..2,
     victim_ego_density : {<<0, 1>>, <<1, 20>>, <<1, 2>>}]

InitIsolation ==
    /\ metrics_series \in SeqsUpTo(VictimRows, MaxSeriesRows)
    /\ time_to_isolation = NotCalled
    /\ IdleMain
    /\ IdleMetrics
    /\ IdleNmi
    /\ IdleButIsolation

CalculateTimeToIsolation ==
    /\ time_to_isolation = NotCalled
    /\ \E min_windows \in 1..MaxMinWindows :
          time_to_isolation' =
              [min_windows |-> min_windows,
               result |-> calculate_time_to_isolation(metrics_series, EgoDensityThreshold,
                                                      min_windows)]
    /\ UNCHANGED metrics_series
    /\ UNCHANGED varsButIsolation

NextIsolation == CalculateTimeToIsolation

SpecIsolation == InitIsolation /\ [][NextIsolation]_vars


(***************************************************************************)
(* dose_response.py : calculate_dose_response_curves for one response      *)
(* column                                                                  *)
(*                                                                         *)
(* A row is [factor, response]; Missing is a NaN cell.  Bin edges are kept *)
(* as n_bins times their value, so that quantiles stay integers.           *)
(***************************************************************************)
MaxDoseRows == 4
MaxFactor == 2
MaxBins == 3
MaxMinSamples == 2

Missing == 0 - 1

\* line 42: metrics_df.dropna(subset = [factor_col])
valid_rows(frame) == SelectSeq(frame, LAMBDA row : row.factor # Missing)

\* n_bins * (the quantile j / n_bins of the factor values), by linear
\* interpolation between the order statistics
quantile_x_bins(factors, n_bins, j) ==
    LET m == Len(factors)
        lo == ((m - 1) * j) \div n_bins
        rem == ((m - 1) * j) % n_bins
        a == OrderStatistic(factors, lo + 1)
        b == OrderStatistic(factors, IF lo + 2 <= m THEN lo + 2 ELSE m)
    IN n_bins * a + rem * (b - a)

\* line 53, pd.qcut(factor_values, q = n_bins, duplicates = 'drop'): the
\* distinct quantile edges in ascending order (two equal edges are kept for
\* q = 1)
qcut_edges(factors, n_bins) ==
    LET edges == [j \in 1..(n_bins + 1) |-> quantile_x_bins(factors, n_bins, j - 1)]
    IN IF n_bins = 1 THEN edges ELSE Ascending(Range(edges))

\* the bin (1, 2, ...) of the value v between the edges: edges[i] < v <=
\* edges[i + 1], the lowest edge included; 0 where v lies in no bin
bin_of(edges, n_bins, v) ==
    IF Len(edges) < 2 THEN 0
    ELSE IF n_bins * v = edges[1] THEN 1
    ELSE LET fits == {b \in 1..(Len(edges) - 1) :
                         edges[b] < n_bins * v /\ n_bins * v <= edges[b + 1]}
         IN IF fits = {} THEN 0 ELSE CHOOSE b \in fits : TRUE

\* lines 52-56: the bin of every row of valid_data.  Where every quantile
\* edge is the same value, qcut either assigns no bin or raises ValueError,
\* and pd.cut then puts the rows into the one equal-width bin around the
\* value
Binnings(data, n_bins) ==
    LET factors == [k \in 1..Len(data) |-> data[k].factor]
        edges == qcut_edges(factors, n_bins)
    IN IF Len(edges) < 2
       THEN {[k \in 1..Len(data) |-> 0], [k \in 1..Len(data) |-> (n_bins + 1) \div 2]}
       ELSE {[k \in 1..Len(data) |-> bin_of(edges, n_bins, factors[k])]}

\* lines 96-128: the statistics of the bins kept, in bin order
bin_statistics(data, bins, min_samples_per_bin) ==
    LET group(b) == {k \in 1..Len(data) : bins[k] = b}
        response_values(b) == {k \in group(b) : data[k].response # Missing}
        kept == {b \in Range(bins) \ {0} :
                    /\ Cardinality(group(b)) >= min_samples_per_bin
                    /\ response_values(b) # {}}
        ordered == Ascending(kept)
    IN [n \in 1..Len(ordered) |->
           [bin |-> ordered[n],
            bin_center |-> <<SumOver([k \in 1..Len(data) |-> data[k].factor],
                                     group(ordered[n])),
                             Cardinality(group(ordered[n]))>>,
            n_samples |-> Cardinality(response_values(ordered[n]))]]

\* lines 95-163; the fitted numbers are floats
calculate_single_dose_response_above_two(data, bins, min_samples_per_bin) ==
    LET bin_stats == bin_statistics(data, bins, min_samples_per_bin)
    IN IF Len(bin_stats) <= 2 THEN NoneDict
       ELSE [curve_data |-> bin_stats, slope |-> Float, intercept |-> Float,
             r2 |-> Float, correlation |-> Float, n_bins |-> Len(bin_stats),
             total_samples |-> SumOver([n \in 1..Len(bin_stats) |-> bin_stats[n].n_samples],
                                       1..Len(bin_stats))]

calculate_single_dose_response(data, bins, min_samples_per_bin) ==
    LET bin_stats == bin_statistics(data, bins, min_samples_per_bin)
    IN IF Len(bin_stats) < 2 THEN NoneDict
       ELSE [curve_data |-> bin_stats, slope |-> Float, intercept |-> Float,
             r2 |-> Float, correlation |-> Float, n_bins |-> Len(bin_stats),
             total_samples |-> SumOver([n \in 1..Len(bin_stats) |-> bin_stats[n].n_samples],
                                       1..Len(bin_stats))]

\* lines 37-72 for response_cols = ['response']: the possible dictionaries
calculate_dose_response_curves(frame, n_bins, min_samples_per_bin) ==
    LET valid_data == valid_rows(frame)
    IN IF Len(valid_data) = 0 THEN {<< >>}
       ELSE {LET curve_data == calculate_single_dose_response(valid_data, bins,
                                                              min_samples_per_bin)
             IN IF curve_data # NoneDict THEN [response |-> curve_data] ELSE << >>
             : bins \in Binnings(valid_data, n_bins)}

DoseRows == [factor : {Missing} \cup 0..MaxFactor, response : {Missing, 1}]

InitDose ==
    /\ dose_df \in SeqsUpTo(DoseRows, MaxDoseRows)
    /\ curves = NotCalled
    /\ IdleMain
    /\ IdleMetrics
    /\ IdleNmi
    /\ IdleButDose

CalculateDoseResponseCurves ==
    /\ curves = NotCalled
    /\ \E n_bins \in 1..MaxBins, min_samples_per_bin \in 1..MaxMinSamples :
          \E result \in calculate_dose_response_curves(dose_df, n_bins, min_samples_per_bin) :
              curves' = [n_bins |-> n_bins,
                         min_samples_per_bin |-> min_samples_per_bin,
                         result |-> result]
    /\ UNCHANGED dose_df
    /\ UNCHANGED varsButDose

NextDose == CalculateDoseResponseCurves

SpecDose == InitDose /\ [][NextDose]_vars


\* Scenario C: the ten factor values, each row with or without a response
ScenarioC == <<0, 0, 1, 1, 1, 1, 2, 2, 2, 2>>

InitScenarioC ==
    /\ dose_df \in {[k \in 1..Len(ScenarioC) |-> [factor |-> ScenarioC[k], response |-> r[k]]] :
                       r \in [1..Len(ScenarioC) -> {Missing, 1}]}
    /\ curves = NotCalled
    /\ IdleMain
    /\ IdleMetrics
    /\ IdleNmi
    /\ IdleButDose

\* the call with n_bins = 3 and min_samples_per_bin = 3
CalculateScenarioC ==
    /\ curves = NotCalled
    /\ \E result \in calculate_dose_response_curves(dose_df, 3, 3) :
           curves' = [n_bins |-> 3, min_samples_per_bin |-> 3, result |-> result]
    /\ UNCHANGED dose_df
    /\ UNCHANGED varsButDose

NextScenarioC == CalculateScenarioC

SpecScenarioC == InitScenarioC /\ [][NextScenarioC]_vars

(***************************************************************************)
(* cli_compute.py : main                                                   *)
(***************************************************************************)
Truthy(d) == d # NoneDict /\ DOMAIN d # {}

\* pd.DataFrame(list of dicts): one row per dict, the columns are the union
\* of the keys, a missing cell is NaN
DataFrame(dicts) ==
    LET columns == UNION {DOMAIN dicts[r] : r \in 1..Len(dicts)}
    IN [r \in 1..Len(dicts) |->
           [c \in columns |-> IF c \in DOMAIN dicts[r] THEN dicts[r][c] ELSE NaN]]

\* metrics_df.loc[row, column] = value for an existing 0-based row label; a
\* new column is NaN in the other rows
SetCell(frame, row, column, value) ==
    [r \in 1..Len(frame) |->
        IF r = row + 1
        THEN (column :> value) @@ frame[r]
        ELSE IF column \in DOMAIN frame[r] THEN frame[r]
             ELSE (column :> NaN) @@ frame[r]]

\* line 290: all_communities.get(f"window_{i-1}")
PreviousCommunities(comms, k) ==
    IF (k - 1) \in DOMAIN comms THEN comms[k - 1] ELSE NoneDict

\* lines 210-223
EnterWindowLoop ==
    /\ pc = "windows_created"
    /\ pc' = "window_loop"
    /\ i' = 0
    /\ all_metrics' = << >>
    /\ all_communities' = << >>
    /\ UNCHANGED <<df, window_size, step_size, windows, current_start,
                   save_communities, metrics_df>>
    /\ UNCHANGED <<varsMetrics, varsNmi, varsAux>>

\* lines 225-295: one iteration of the loop over the windows
ProcessWindow ==
    /\ pc = "window_loop"
    /\ i < Len(windows)
    /\ LET t_start == windows[i + 1][1]
           t_end == windows[i + 1][2]
           window_df == get_window_data(df, t_start, t_end)
           computed == calculate_all_metrics(window_df, t_start, t_end,
                                             victim_id, leader_id, node_labels)
           G == build_graph(window_df)
       IN IF Len(window_df) = 0
          THEN \* lines 231-233: continue
               /\ i' = i + 1
               /\ UNCHANGED <<pc, all_metrics, all_communities>>
          ELSE IF IsRaised(computed)
          THEN \* lines 380-382: except Exception ... sys.exit(1)
               /\ pc' = "exit_1"
               /\ UNCHANGED <<i, all_metrics, all_communities>>
          ELSE \E communities \in DetectedCommunities(G) :
               LET with_metadata == get_window_metadata(df, t_start, t_end) @@ computed
                   with_communities ==
                       IF number_of_nodes(G) > 1
                       THEN calculate_community_metrics(G, communities)
                                @@ [communities |-> communities] @@ with_metadata
                       ELSE with_metadata
                   saved ==
                       IF number_of_nodes(G) > 1 /\ save_communities
                       THEN (i :> communities) @@ all_communities
                       ELSE all_communities
                   prev_communities == PreviousCommunities(saved, i)
                   row == IF /\ i > 0
                             /\ Truthy(with_communities.communities)
                             /\ Truthy(prev_communities)
                          THEN [nmi_prev |-> calculate_nmi(prev_communities,
                                                 with_communities.communities)]
                                   @@ with_communities
                          ELSE with_communities
               IN /\ all_communities' = saved
                  /\ all_metrics' = Append(all_metrics, row)
                  /\ i' = i + 1
                  /\ pc' = pc
    /\ UNCHANGED <<df, window_size, step_size, windows, current_start,
                   save_communities, metrics_df>>
    /\ UNCHANGED <<varsMetrics, varsNmi, varsAux>>

\* line 298, and the start of the loop of line 301
BuildMetricsFrame ==
    /\ pc = "window_loop"
    /\ i >= Len(windows)
    /\ metrics_df' = DataFrame(all_metrics)
    /\ i' = 0
    /\ pc' = "nmi_next_loop"
    /\ UNCHANGED <<df, window_size, step_size, windows, current_start,
                   save_communities, all_metrics, all_communities>>
    /\ UNCHANGED <<varsMetrics, varsNmi, varsAux>>

\* lines 301-304: one iteration of the loop over range(len(metrics_df) - 1)
NmiNextStep ==
    /\ pc = "nmi_next_loop"
    /\ i < Len(metrics_df) - 1
    /\ metrics_df' =
           IF i \in DOMAIN all_communities /\ (i + 1) \in DOMAIN all_communities
           THEN SetCell(metrics_df, i, "nmi_next",
                        calculate_nmi(all_communities[i], all_communities[i + 1]))
           ELSE metrics_df
    /\ i' = i + 1
    /\ UNCHANGED <<df, window_size, step_size, pc, windows, current_start,
                   save_communities, all_metrics, all_communities>>
    /\ UNCHANGED <<varsMetrics, varsNmi, varsAux>>

\* lines 306-312 after the loop of line 301 has ended
FlagOnsetClimax ==
    /\ pc = "nmi_next_loop"
    /\ i >= Len(metrics_df) - 1
    /\ LET found == IF Len(metrics_df) > 0
                    THEN find_onset_climax([r \in 1..Len(metrics_df) |->
                                               metrics_df[r].peak_mean])
                    ELSE <<NoIndex, NoIndex>>
           onset_idx == found[1]
           climax_idx == found[2]
           flagged == IF onset_idx # NoIndex
                      THEN SetCell(metrics_df, onset_idx, "onset_flag", <<"True">>)
                      ELSE metrics_df
       IN metrics_df' = IF climax_idx # NoIndex
                        THEN SetCell(flagged, climax_idx, "climax_flag", <<"True">>)
                        ELSE flagged
    /\ pc' = "done"
    /\ UNCHANGED <<df, window_size, step_size, windows, current_start,
                   save_communities, i, all_metrics, all_communities>>
    /\ UNCHANGED <<varsMetrics, varsNmi, varsAux>>

\* load_interactions (io.py lines 64, 173) hands over a frame without
\* self-referencing rows, sorted by timestamp
LoadedFrames ==
    {d \in SeqsUpTo({r \in [src : PipelineNodes, dst : PipelineNodes,
                            timestamp : 0..MaxT] : r.src # r.dst}, MaxEvents) :
        IsSortedByTime(d)}

Init ==
    /\ df \in LoadedFrames
    /\ window_size \in 1..MaxDelta
    /\ step_size \in 1..MaxDelta
    /\ save_communities \in BOOLEAN
    /\ victim_id \in {None, "A"}
    /\ leader_id = None
    /\ node_labels = NoneDict
    /\ pc = "start"
    /\ windows = << >>
    /\ current_start = NaT
    /\ i = 0
    /\ all_metrics = << >>
    /\ all_communities = << >>
    /\ metrics_df = << >>
    /\ interactions_df = << >>
    /\ G_directed = NotBuilt
    /\ G_undirected = NotBuilt
    /\ metrics = NotCalled
    /\ IdleNmi
    /\ IdleAux

Next ==
    \/ CreateWindowsEnter
    \/ CreateWindowsLoop
    \/ CreateWindowsReturn
    \/ EnterWindowLoop
    \/ ProcessWindow
    \/ BuildMetricsFrame
    \/ NmiNextStep
    \/ FlagOnsetClimax

Spec == Init /\ [][Next]_vars

(***************************************************************************)
(* cli_compute.py : main, invoked a second time on the same events with    *)
(* the option --save-communities the other way                             *)
(***************************************************************************)
RunAgain ==
    /\ pc = "done"
    /\ run = 1
    /\ run' = 2
    /\ first_metrics_df' = metrics_df
    /\ save_communities' = ~save_communities
    /\ pc' = "start"
    /\ windows' = << >>
    /\ current_start' = NaT
    /\ i' = 0
    /\ all_metrics' = << >>
    /\ all_communities' = << >>
    /\ metrics_df' = << >>
    /\ UNCHANGED <<df, window_size, step_size>>
    /\ UNCHANGED <<varsMetrics, varsNmi>>
    /\ UNCHANGED <<varsCommunity, varsTopk, varsCentralization, varsLabels, varsBurst,
                   varsIsolation, varsDose>>

NextTwoRuns ==
    \/ CreateWindowsEnter
    \/ CreateWindowsLoop
    \/ CreateWindowsReturn
    \/ EnterWindowLoop
    \/ ProcessWindow
    \/ BuildMetricsFrame
    \/ NmiNextStep
    \/ FlagOnsetClimax
    \/ RunAgain

SpecTwoRuns == Init /\ [][NextTwoRuns]_vars

(***************************************************************************)
(* cli_compute.py : main, the window loop up to the range query of every   *)
(* window (lines 225-229)                                                  *)
(***************************************************************************)
GetWindowData ==
    /\ pc = "window_loop"
    /\ i < Len(windows)
    /\ interactions_df' = get_window_data(df, windows[i + 1][1], windows[i + 1][2])
    /\ i' = i + 1
    /\ UNCHANGED <<df, window_size, step_size, pc, windows, current_start,
                   save_communities, all_metrics, all_communities, metrics_df>>
    /\ UNCHANGED <<victim_id, leader_id, node_labels, G_directed, G_undirected, metrics>>
    /\ UNCHANGED <<varsNmi, varsAux>>

NextWindowData ==
    \/ CreateWindowsEnter
    \/ CreateWindowsLoop
    \/ CreateWindowsReturn
    \/ EnterWindowLoop
    \/ GetWindowData

SpecWindowData == InitWindows /\ [][NextWindowData]_vars

(***************************************************************************)
(* cli_compute.py : main on bursts of interactions between one pair: fewer *)
(* rows (A, B) than the onset threshold at every time, so that peak_mean,  *)
(* the number of rows of a window, reaches the threshold in windows wider  *)
(* than one time unit                                                      *)
(***************************************************************************)
\* the rows of the frame that has counts[t] rows at time t, in time order
BurstFrame(counts) ==
    LET upto(t) == SumOver(counts, 0..t)
    IN [k \in 1..upto(MaxT) |->
           [src |-> "A", dst |-> "B",
            timestamp |-> CHOOSE t \in 0..MaxT : upto(t - 1) < k /\ k <= upto(t)]]

BurstFrames == {BurstFrame(counts) : counts \in [0..MaxT -> 0..(OnsetThreshold - 1)]}

InitFlags ==
    /\ df \in BurstFrames
    /\ window_size \in 1..MaxDelta
    /\ step_size \in 1..MaxDelta
    /\ save_communities = FALSE
    /\ victim_id = None
    /\ leader_id = None
    /\ node_labels = NoneDict
    /\ pc = "start"
    /\ windows = << >>
    /\ current_start = NaT
    /\ i = 0
    /\ all_metrics = << >>
    /\ all_communities = << >>
    /\ metrics_df = << >>
    /\ interactions_df = << >>
    /\ G_directed = NotBuilt
    /\ G_undirected = NotBuilt
    /\ metrics = NotCalled
    /\ IdleNmi
    /\ IdleAux

SpecFlags == InitFlags /\ [][Next]_vars

(***************************************************************************)
(* windows.py : WindowProcessor.get_node_labels, for one label column      *)
(*                                                                         *)
(* A label is a number 1..MaxLabel; the label 0 of a row stands for NaN (a *)
(* missing label in the data frame) and NoLabel for the None the function  *)
(* stores.                                                                 *)
(***************************************************************************)
MaxLabel == 2
MaxLabelRows == 3

NaNLabel == 0
NoLabel == 0 - 1

\* Series.dropna()
dropna(values) == SelectSeq(values, LAMBDA x : x # NaNLabel)

CountOf(values, x) == Cardinality({k \in 1..Len(values) : values[k] = x})

\* Series.mode(): the values that occur most often, sorted ascending
mode(values) ==
    LET modal == {x \in Range(values) :
                     \A y \in Range(values) : CountOf(values, y) <= CountOf(values, x)}
    IN SortedAscending([x \in modal |-> x], modal)

\* windows.py lines 224-233: the label of one node for the column
NodeLabel(window_df, node, col_present) ==
    LET node_interactions == SelectSeq(window_df, LAMBDA r : r.src = node \/ r.dst = node)
        values == dropna([k \in 1..Len(node_interactions) |-> node_interactions[k].label])
    IN IF col_present
       THEN IF Len(values) > 0
            THEN (IF Len(mode(values)) > 0 THEN mode(values)[1] ELSE values[1])
            ELSE NoLabel
       ELSE NoLabel

\* windows.py lines 208-237
get_node_labels(d, t_start, t_end, col_present) ==
    LET window_df == get_window_data(d, t_start, t_end)
        all_nodes == {window_df[k].src : k \in 1..Len(window_df)}
                         \cup {window_df[k].dst : k \in 1..Len(window_df)}
    IN IF Len(window_df) = 0 THEN << >>
       ELSE [node \in all_nodes |-> NodeLabel(window_df, node, col_present)]

LabelledFrames ==
    {d \in SeqsUpTo([src : PipelineNodes, dst : PipelineNodes,
                     timestamp : 0..1, label : 0..MaxLabel], MaxLabelRows) :
        IsSortedByTime(d)}

InitLabels ==
    /\ labelled_df \in LabelledFrames
    /\ has_label_col \in BOOLEAN
    /\ node_label_map = NotCalled
    /\ IdleMain
    /\ IdleMetrics
    /\ IdleNmi
    /\ IdleButLabels

\* node_label_map = processor.get_node_labels(0, 1, [col]) on the frame
GetNodeLabels ==
    /\ node_label_map = NotCalled
    /\ node_label_map' = get_node_labels(labelled_df, 0, 1, has_label_col)
    /\ UNCHANGED <<labelled_df, has_label_col>>
    /\ UNCHANGED varsButLabels

NextLabels == GetNodeLabels

SpecLabels == InitLabels /\ [][NextLabels]_vars

(***************************************************************************)
(* C1: for positive width W and step S, create_windows returns exactly the *)
(* windows [min_t + k*S, min_t + k*S + W), k = 0, 1, ..., in increasing k, *)
(* one for every k with min_t + k*S + W <= max_t and no others.            *)
(***************************************************************************)
ValidStarts ==
    {k \in 0..MaxWindows : TimeMin(df) + k * step_size + window_size <= TimeMax(df)}

ExpectedWindows ==
    [k \in 1..Cardinality(ValidStarts) |->
        <<TimeMin(df) + (k - 1) * step_size,
          TimeMin(df) + (k - 1) * step_size + window_size>>]

C1_WindowsExact ==
    (pc = "windows_created" /\ Len(df) > 0 /\ window_size > 0 /\ step_size > 0)
        => windows = ExpectedWindows

C1_Witness ==
    /\ pc = "windows_created"
    /\ window_size = 2
    /\ step_size = 1
    /\ Len(windows) = 2
    /\ TimeMax(df) - TimeMin(df) = 3

(***************************************************************************)
(* C4: a width or step that is zero or negative is rejected: no window is  *)
(* ever produced and create_windows does not return a list.                *)
(***************************************************************************)
C4_NonPositiveRejected ==
    (pc \in {"create_windows", "windows_created"}
        /\ (window_size <= 0 \/ step_size <= 0))
        => (windows = << >> /\ pc # "windows_created")

(***************************************************************************)
(* C5: build_graph (directed) has exactly one edge u->v of weight k for    *)
(* every ordered pair (u, v), u # v, that occurs k >= 1 times; a pair with *)
(* u = v adds no edge, no weight and no node; there are no other edges, no *)
(* self-loop, and the weights sum to the number of rows with u # v.        *)
(***************************************************************************)
Occurrences(rows, u, v) ==
    Cardinality({k \in 1..Len(rows) : rows[k].src = u /\ rows[k].dst = v})

ProperRows(rows) == {k \in 1..Len(rows) : rows[k].src # rows[k].dst}

C5_EdgeAggregation ==
    G_directed # NotBuilt =>
        /\ \A u, v \in Nodes :
              (u # v /\ Occurrences(interactions_df, u, v) >= 1)
                  => /\ has_edge(G_directed, u, v)
                     /\ G_directed.weight[<<u, v>>] = Occurrences(interactions_df, u, v)
        /\ \A e \in Edges(G_directed) :
              e[1] # e[2] /\ Occurrences(interactions_df, e[1], e[2]) >= 1
        /\ NodeSet(G_directed) =
              UNION {{interactions_df[k].src, interactions_df[k].dst} :
                        k \in ProperRows(interactions_df)}
        /\ number_of_nodes(G_directed) = Cardinality(NodeSet(G_directed))
        /\ SumOver(G_directed.weight, Edges(G_directed))
              = Cardinality(ProperRows(interactions_df))

C5_Witness ==
    /\ G_directed # NotBuilt
    /\ Len(interactions_df) = 3
    /\ has_edge(G_directed, "A", "B")
    /\ G_directed.weight[<<"A", "B">>] = 2
    /\ \E k \in 1..3 : interactions_df[k].src = interactions_df[k].dst

(***************************************************************************)
(* C6: the undirected projection has an edge {u, v} exactly when the       *)
(* directed graph has u->v or v->u, and its weight is                      *)
(* weight(u->v) + weight(v->u), a missing direction counting as 0.         *)
(***************************************************************************)
C6_ProjectionSumsWeights ==
    G_undirected # NotBuilt =>
        /\ Edges(G_undirected) =
              {{u, v} : <<u, v>> \in
                  {p \in Nodes \X Nodes : has_edge(G_directed, p[1], p[2])}}
        /\ \A u, v \in Nodes :
              {u, v} \in Edges(G_undirected)
                  => G_undirected.weight[{u, v}] = ProjectedWeightSummed(G_directed, u, v)

(***************************************************************************)
(* C3: calculate_all_metrics is total: for every interaction set and every *)
(* choice of target, leader and node labels it returns a record and never  *)
(* raises.                                                                 *)
(***************************************************************************)
C3_NeverRaises == metrics # NotCalled => ~IsRaised(metrics)

(***************************************************************************)
(* C7: every record returned by calculate_all_metrics has the same set of  *)
(* fields, whatever the input.                                             *)
(***************************************************************************)
SchemaFields ==
    DOMAIN calculate_all_metrics(<<[src |-> "A", dst |-> "B"]>>, 0, 1,
                                 None, None, NoneDict)

C7_FixedSchema ==
    (metrics # NotCalled /\ ~IsRaised(metrics)) => DOMAIN metrics = SchemaFields

(***************************************************************************)
(* C10: agreement(P, P) = 1.0 for every partition P with at least 2 nodes, *)
(* whatever its community structure.                                       *)
(***************************************************************************)
C10_SelfAgreementIsOne ==
    (communities1 = communities2 /\ Cardinality(DOMAIN communities1) >= 2)
        => /\ nmi # <<"unset">> => nmi = NmiOne
           /\ nmi_core # <<"unset">> => nmi_core = NmiOne

C10_Witness ==
    /\ communities1 = communities2
    /\ DOMAIN communities1 = PartitionNodes
    /\ Cardinality(Labels(communities1)) = 1
    /\ nmi = NmiOne
    /\ nmi_core = NmiOne

(***************************************************************************)
(* C2: for every window, the node and edge counts of the graph built from  *)
(* the window's interactions equal the n_nodes and n_edges that            *)
(* get_window_metadata reports for the same window.                        *)
(***************************************************************************)
C2_CountsRoundTrip ==
    \A k \in 1..Len(windows) :
        LET G == build_graph(get_window_data(df, windows[k][1], windows[k][2]))
            reported == get_window_metadata(df, windows[k][1], windows[k][2])
        IN /\ number_of_nodes(G) = reported.n_nodes
           /\ number_of_edges(G) = reported.n_edges

(***************************************************************************)
(* C8: after the window loop the metrics table has exactly one row per     *)
(* generated window, in window order, windows without interactions         *)
(* included.                                                               *)
(***************************************************************************)
C8_OneRowPerWindow ==
    pc \in {"nmi_next_loop", "done"} =>
        /\ Len(metrics_df) = Len(windows)
        /\ \A r \in 1..Len(windows) :
              /\ metrics_df[r].t_start = windows[r][1]
              /\ metrics_df[r].t_end = windows[r][2]

(***************************************************************************)
(* C9: once the pipeline has finished, for every two consecutive windows   *)
(* that each yielded a community partition, the row of the later window    *)
(* holds nmi_prev = agreement(P_i, P_i+1) and the row of the earlier       *)
(* window holds nmi_next equal to that same value.                         *)
(***************************************************************************)
RowOfWindow(k) ==
    {r \in 1..Len(metrics_df) : metrics_df[r].t_start = windows[k][1]}

C9_NeighbourAgreementStored ==
    pc = "done" =>
        \A k \in 1..(Len(windows) - 1) :
            \A r1 \in RowOfWindow(k), r2 \in RowOfWindow(k + 1) :
                (Truthy(metrics_df[r1].communities) /\ Truthy(metrics_df[r2].communities))
                    => /\ "nmi_prev" \in DOMAIN metrics_df[r2]
                       /\ "nmi_next" \in DOMAIN metrics_df[r1]
                       /\ metrics_df[r2].nmi_prev =
                              calculate_nmi(metrics_df[r1].communities,
                                            metrics_df[r2].communities)
                       /\ metrics_df[r1].nmi_next = metrics_df[r2].nmi_prev

(***************************************************************************)
(* C11: calculate_nmi scores two partitions over their common nodes only,  *)
(* and returns NaN (never an exception) when fewer than 2 nodes are        *)
(* common, which includes the case of an empty partition.                  *)
(***************************************************************************)
CommonNodes == DOMAIN communities1 \cap DOMAIN communities2

Restricted(c) == [n \in CommonNodes |-> c[n]]

C11_CommonNodesOnly ==
    nmi # <<"unset">> =>
        /\ Cardinality(CommonNodes) < 2 => nmi = NaN
        /\ Cardinality(CommonNodes) >= 2 =>
               /\ nmi # NaN
               /\ nmi = calculate_nmi(Restricted(communities1),
                                      Restricted(communities2))

C11_Witness ==
    /\ Cardinality(CommonNodes) = 1
    /\ Cardinality(DOMAIN communities1) >= 2
    /\ Cardinality(DOMAIN communities2) >= 2
    /\ nmi = NaN

(***************************************************************************)
(* C12: detect_communities returns, without raising, a mapping whose keys  *)
(* are exactly the nodes of the graph (empty for the empty graph, id 0 for *)
(* a single node).  Leiden runs first exactly when it is requested (or     *)
(* "auto") and available; Louvain runs when Leiden is unavailable or has   *)
(* failed; when Louvain fails every node gets a community of its own.      *)
(***************************************************************************)
LeidenWanted == method \in {"auto", "leiden"} /\ LEIDEN_AVAILABLE

IsOne(share) == share[1] = share[2]

SharesMonotone ==
    \A k1, k2 \in DOMAIN topk_shares :
        k1 <= k2 => RatLeq(topk_shares[k1], topk_shares[k2])

C13_OneExactlyWhenAllEntries ==
    DOMAIN pr_scores # {} =>
        /\ SharesMonotone
        /\ \A k \in DOMAIN topk_shares :
               IsOne(topk_shares[k]) <=> k >= Cardinality(DOMAIN pr_scores)

(***************************************************************************)
(* C13 amended: for a non-empty map of non-negative scores with a positive *)
(* sum the top-k share never decreases when k grows, it is 1.0 whenever k  *)
(* is at least the number of entries, and it is 1.0 exactly when k is at   *)
(* least the number of entries with a non-zero score.                      *)
(***************************************************************************)
NonZeroEntries == {n \in DOMAIN pr_scores : pr_scores[n] # 0}

C13_OneExactlyWhenAllNonZeroEntries ==
    (/\ DOMAIN pr_scores # {}
     /\ \A n \in DOMAIN pr_scores : pr_scores[n] >= 0
     /\ SumOver(pr_scores, DOMAIN pr_scores) > 0) =>
        /\ SharesMonotone
        /\ \A k \in DOMAIN topk_shares :
               /\ k >= Cardinality(DOMAIN pr_scores) => IsOne(topk_shares[k])
               /\ IsOne(topk_shares[k]) <=> k >= Cardinality(NonZeroEntries)

C13_Witness ==
    /\ Cardinality(DOMAIN pr_scores) = 3
    /\ \A n \in DOMAIN pr_scores : pr_scores[n] >= 0
    /\ Cardinality(NonZeroEntries) = 2
    /\ DOMAIN topk_shares = 0..3
    /\ ~IsOne(topk_shares[1])
    /\ IsOne(topk_shares[2])
    /\ IsOne(topk_shares[3])

(***************************************************************************)
(* C14: for the empty score map and for every score map whose scores sum   *)
(* to 0, calculate_topk_share returns 0.0 whatever k is.                   *)
(***************************************************************************)
C14_ZeroSumGivesZero ==
    SumOver(pr_scores, DOMAIN pr_scores) = 0 =>
        \A k \in DOMAIN topk_shares : topk_shares[k] = <<0, 1>>

C14_Witness ==
    /\ Cardinality(DOMAIN pr_scores) = 3
    /\ \E n \in DOMAIN pr_scores : pr_scores[n] > 0
    /\ SumOver(pr_scores, DOMAIN pr_scores) = 0
    /\ DOMAIN topk_shares = 0..MaxK
    /\ \A k \in 0..MaxK : topk_shares[k] = <<0, 1>>

(***************************************************************************)
(* C15: on a graph of 0, 1 or 2 nodes, directed or not, with or without    *)
(* edges, calculate_betweenness_centralization returns 0.0.                *)
(***************************************************************************)
C15_SmallGraphsGiveZero ==
    (centralization # NotCalled /\ number_of_nodes(bc_graph) < 3)
        => centralization = <<0, 1>>

C15_Witness ==
    /\ centralization # NotCalled
    /\ number_of_nodes(bc_graph) = 2
    /\ number_of_edges(bc_graph) = 2
    /\ centralization = <<0, 1>>

(***************************************************************************)
(* C16: on every graph calculate_betweenness_centralization returns a      *)
(* value between 0 and 1.                                                  *)
(***************************************************************************)
C16_CentralizationInUnitInterval ==
    centralization # NotCalled =>
        /\ 0 <= centralization[1]
        /\ centralization[1] <= centralization[2]

(***************************************************************************)
(* C17: in the metrics calculate_all_metrics returns for a non-empty       *)
(* window, when the target is a node of the window graph the flag          *)
(* victim_is_isolated is True exactly when victim_reciprocity is 0,        *)
(* victim_scc_size is 1 and victim_ego_density is at most the threshold;   *)
(* when the target is not given or not in the graph the four values are    *)
(* 0, 0, 0.0 and False, and the three primitives return 0, 0 and 0.0 for   *)
(* a node that is not in the graph.                                        *)
(***************************************************************************)
WindowGraph == build_graph(interactions_df)

TargetPresent == victim_id # None /\ has_node(WindowGraph, victim_id)

ScenarioBBuilt ==
    /\ Range(interactions_df) = ScenarioB
    /\ G_directed # NotBuilt
    /\ metrics # NotCalled

TargetAConnected ==
    /\ metrics.victim_reciprocity = 1
    /\ metrics.victim_scc_size = 2
    /\ metrics.victim_is_isolated = FALSE

C18_TwoStrongComponentsOfSize2 ==
    ScenarioBBuilt =>
        /\ metrics.n_weakly_components = 2
        /\ \A c \in weakly_connected_components(G_directed) : Cardinality(c) = 2
        /\ metrics.n_strongly_components = 2
        /\ \A c \in strongly_connected_components(G_directed) : Cardinality(c) = 2
        /\ TargetAConnected

(***************************************************************************)
(* C18 amended: the graph built from (A,B), (B,A), (C,D) has two weakly    *)
(* connected components of size 2 each and three strongly connected        *)
(* components, {A,B}, {C} and {D}; for target A reciprocity is 1, the SCC  *)
(* size is 2 and A is not isolated.                                        *)
(***************************************************************************)
C18_ThreeStrongComponents ==
    ScenarioBBuilt =>
        /\ metrics.n_weakly_components = 2
        /\ \A c \in weakly_connected_components(G_directed) : Cardinality(c) = 2
        /\ metrics.n_strongly_components = 3
        /\ strongly_connected_components(G_directed) = {{"A", "B"}, {"C"}, {"D"}}
        /\ TargetAConnected

C18_Witness ==
    /\ ScenarioBBuilt
    /\ Len(interactions_df) = 3
    /\ metrics.n_strongly_components = 3
    /\ metrics.victim_scc_size = 2

(***************************************************************************)
(* C19: in a directed graph without self-loops, for every node of the      *)
(* graph, reciprocity lies between 0 and the node's out-degree and the SCC *)
(* size between 1 and the number of nodes; on the undirected projection    *)
(* the ego density lies between 0 and 1 and is 0.0 for a node with fewer   *)
(* than 2 neighbours.                                                      *)
(***************************************************************************)
out_degree(G, node) == Cardinality(Successors(G, node))

C19_PrimitiveRanges ==
    (G_directed # NotBuilt /\ G_undirected # NotBuilt) =>
        \A node \in NodeSet(G_directed) :
            LET reciprocity == calculate_reciprocity(G_directed, node)
                scc_size == get_strongly_connected_component_size(G_directed, node)
                ego_density == calculate_ego_density(G_undirected, node)
            IN /\ 0 <= reciprocity
               /\ reciprocity <= out_degree(G_directed, node)
               /\ 1 <= scc_size
               /\ scc_size <= number_of_nodes(G_directed)
               /\ RatLeq(<<0, 1>>, ego_density)
               /\ RatLeq(ego_density, <<1, 1>>)
               /\ Cardinality(UNeighbors(G_undirected, node)) < 2
                      => ego_density = <<0, 1>>

C19_Witness ==
    /\ G_directed # NotBuilt
    /\ G_undirected # NotBuilt
    /\ \E node \in NodeSet(G_directed) :
           /\ calculate_reciprocity(G_directed, node) = 0
           /\ out_degree(G_directed, node) = 2
           /\ get_strongly_connected_component_size(G_directed, node) = 1
           /\ calculate_ego_density(G_undirected, node) = <<2, 2>>

(***************************************************************************)
(* C20: get_node_labels gives every node of the window the label that      *)
(* occurs most often among the window's interactions the node takes part   *)
(* in; among the labels tied for most frequent it takes the one seen first *)
(* (in the earliest such interaction); a node with no non-missing label    *)
(* gets a missing value.                                                   *)
(***************************************************************************)
LabelsSeenBy(node) ==
    LET window_df == get_window_data(labelled_df, 0, 1)
        rows == SelectSeq(window_df, LAMBDA r : r.src = node \/ r.dst = node)
    IN SelectSeq([k \in 1..Len(rows) |-> rows[k].label], LAMBDA x : x # NaNLabel)

FirstSeen(values, x) == CHOOSE k \in 1..Len(values) :
                            values[k] = x /\ \A j \in 1..(k - 1) : values[j] # x

IsMostFrequentFirstSeen(values, x) ==
    /\ x \in Range(values)
    /\ \A y \in Range(values) :
           \/ CountOf(values, y) < CountOf(values, x)
           \/ /\ CountOf(values, y) = CountOf(values, x)
              /\ FirstSeen(values, x) <= FirstSeen(values, y)

C20_MajorityLabelFirstSeenOnTies ==
    (node_label_map # NotCalled /\ has_label_col) =>
        \A node \in DOMAIN node_label_map :
            IF Len(LabelsSeenBy(node)) = 0
            THEN node_label_map[node] = NoLabel
            ELSE IsMostFrequentFirstSeen(LabelsSeenBy(node), node_label_map[node])

\* C21: for every series, every onset threshold and each climax method,
\* whenever find_onset_climax returns two defined indices (neither None nor
\* NaN), the onset index is less than or equal to the climax index.
C21_OnsetNotAfterClimax ==
    (onset_climax # NotCalled /\ ~IsRaised(onset_climax.result)) =>
        LET onset_idx == onset_climax.result.returned[1]
            climax_idx == onset_climax.result.returned[2]
        IN (onset_idx >= 0 /\ climax_idx >= 0) => onset_idx <= climax_idx

\* a call that returns an onset after the first sample and a later climax:
\* the first local peak
C21_Witness ==
    /\ onset_climax # NotCalled
    /\ ~IsRaised(onset_climax.result)
    /\ onset_climax.climax_method = "local_max"
    /\ onset_climax.result.returned = <<1, 2>>
    /\ find_peaks(ts, 2, Prominence) = {3}

\* C22: find_onset_climax returns as onset the first index whose value
\* reaches onset_threshold and as climax the index of the maximum (the global
\* maximum, the first local peak, or the maximum of the smoothing-window
\* mean, by method) over the positions at or after the onset; with no value
\* at the threshold, and for an empty series, both results are None.
C22_OnsetFirstClimaxMaxAfter ==
    onset_climax # NotCalled =>
        LET above == {k \in 1..Len(ts) : ts[k] >= onset_climax.onset_threshold}
            first == CHOOSE k \in above : \A j \in above : k <= j
            post == first..Len(ts)
            peaks == find_peaks(ts, first, Prominence)
            means == rolling_sum(ts, onset_climax.window_size)
        IN /\ ~IsRaised(onset_climax.result)
           /\ LET onset_idx == onset_climax.result.returned[1]
                  climax_idx == onset_climax.result.returned[2]
                  c == climax_idx + 1
              IN IF above = {}
                 THEN onset_idx = NoIndex /\ climax_idx = NoIndex
                 ELSE /\ onset_idx = first - 1
                      /\ c \in post
                      /\ CASE onset_climax.climax_method = "global_max" ->
                                  \A j \in post : ts[j] <= ts[c]
                           [] onset_climax.climax_method = "local_max" ->
                                  IF peaks # {}
                                  THEN c \in peaks /\ \A p \in peaks : c <= p
                                  ELSE \A j \in post : ts[j] <= ts[c]
                           [] onset_climax.climax_method = "smoothed" ->
                                  /\ c \in DOMAIN means
                                  /\ \A j \in post \cap DOMAIN means : means[j] <= means[c]

C24_ConstantSeriesHasNoBurst ==
    (/\ bursts # NotCalled
     /\ bursts.threshold_method = "percentile"
     /\ \A j, k \in 1..Len(ts) : ts[j] = ts[k])
        => bursts.result = << >>

IsolatedWindows ==
    {k \in 0..(Len(metrics_series) - 1) :
        IsIsolatedRow(metrics_series[k + 1], EgoDensityThreshold)}

HasIsolatedRun(m) ==
    \E k \in IsolatedWindows : \A j \in k..(k + m - 1) : j \in IsolatedWindows

\* C25: calculate_time_to_isolation with min_windows = m returns a window
\* index only when the isolation condition holds in at least m consecutive
\* windows, the index being the first isolated window; it returns None when
\* the target is never isolated or no run of m consecutive isolated windows
\* exists.
C25_NeedsConsecutiveIsolatedWindows ==
    time_to_isolation # NotCalled =>
        IF HasIsolatedRun(time_to_isolation.min_windows)
        THEN /\ time_to_isolation.result \in IsolatedWindows
             /\ \A k \in IsolatedWindows : time_to_isolation.result <= k
        ELSE time_to_isolation.result = NoIndex

\* C26: a bin with fewer than min_samples_per_bin valid (non-missing)
\* response observations is dropped, so every bin kept in a returned curve
\* has at least min_samples_per_bin valid response observations; and with
\* fewer than 2 bins remaining the pair yields no curve.
C26_KeptBinsHaveEnoughValidResponses ==
    curves # NotCalled =>
        IF "response" \in DOMAIN curves.result
        THEN LET curve_data == curves.result.response.curve_data
             IN /\ Len(curve_data) >= 2
                /\ \A n \in 1..Len(curve_data) :
                       curve_data[n].n_samples >= curves.min_samples_per_bin
        ELSE TRUE

ScenarioCBinnings == Binnings(valid_rows(dose_df), curves.n_bins)

BinSizes(bins) ==
    [b \in Range(bins) |-> Cardinality({k \in 1..Len(bins) : bins[k] = b})]

\* C27 as stated: the bins of Scenario C hold 2, 4 and 4 samples, the
\* 2-sample bin is dropped leaving 2 bins, and no curve is returned.
C27_BinsTwoFourFourGiveNone ==
    curves # NotCalled =>
        /\ \A bins \in ScenarioCBinnings : BinSizes(bins) = <<2, 4, 4>>
        /\ ~("response" \in DOMAIN curves.result)

\* C27, amended: the quantile edges 0, 1, 2, 2 of Scenario C leave two bins,
\* of 6 and 4 samples; none is dropped for its size, and a curve with 2 bins
\* is returned exactly when each bin has a valid response observation.
C27_BinsSixFourGiveCurve ==
    curves # NotCalled =>
        \A bins \in ScenarioCBinnings :
            /\ BinSizes(bins) = <<6, 4>>
            /\ ("response" \in DOMAIN curves.result) <=>
                   \A b \in {1, 2} : \E k \in 1..Len(bins) :
                       bins[k] = b /\ dose_df[k].response # Missing
            /\ ("response" \in DOMAIN curves.result) =>
                   /\ curves.result.response.n_bins = 2
                   /\ Len(curves.result.response.curve_data) = 2

\* the call on a fully observed response
C27_Witness ==
    /\ curves # NotCalled
    /\ \A k \in 1..Len(dose_df) : dose_df[k].response # Missing
    /\ Len(dose_df) = Len(ScenarioC)
    /\ "response" \in DOMAIN curves.result
    /\ curves.result.response.total_samples = 10

\* the two invocations detected the same partition in every window
SamePartitions ==
    /\ Len(metrics_df) = Len(first_metrics_df)
    /\ \A r \in 1..Len(metrics_df) :
           metrics_df[r].communities = first_metrics_df[r].communities

\* C28: two runs on the same events that differ only in --save-communities
\* produce identical metric rows, nmi_prev and nmi_next included.
C28_SaveCommunitiesLeavesMetricsAlone ==
    (run = 2 /\ pc = "done" /\ SamePartitions) => metrics_df = first_metrics_df

OnsetRows ==
    {r \in 1..Len(metrics_df) :
        "onset_flag" \in DOMAIN metrics_df[r] /\ metrics_df[r].onset_flag = <<"True">>}

ClimaxRows ==
    {r \in 1..Len(metrics_df) :
        "climax_flag" \in DOMAIN metrics_df[r] /\ metrics_df[r].climax_flag = <<"True">>}

ReachingRows == {r \in 1..Len(metrics_df) : metrics_df[r].peak_mean >= OnsetThreshold}

\* C29: after the final pass over the complete metrics table at most one row
\* has onset_flag and at most one has climax_flag; the onset row is the
\* first row with peak_mean >= 3.0, the climax row the first row at or after
\* it with the largest peak_mean from there on, the onset row is never after
\* the climax row, and no flag is set when no row reaches the threshold.
C29_FlagsMarkOnsetAndClimax ==
    pc = "done" =>
        /\ Cardinality(OnsetRows) <= 1
        /\ Cardinality(ClimaxRows) <= 1
        /\ IF ReachingRows = {}
           THEN OnsetRows = {} /\ ClimaxRows = {}
           ELSE \E onset \in ReachingRows, climax \in 1..Len(metrics_df) :
                    /\ OnsetRows = {onset}
                    /\ ClimaxRows = {climax}
                    /\ \A r \in ReachingRows : onset <= r
                    /\ onset <= climax
                    /\ \A r \in onset..Len(metrics_df) :
                           /\ metrics_df[r].peak_mean <= metrics_df[climax].peak_mean
                           /\ metrics_df[r].peak_mean = metrics_df[climax].peak_mean
                                  => climax <= r

\* a finished run whose first row is the onset, at the threshold exactly,
\* and whose second row is the climax
C29_Witness ==
    /\ pc = "done"
    /\ OnsetRows = {1}
    /\ ClimaxRows = {2}
    /\ metrics_df[1].peak_mean = OnsetThreshold

\* C30: every window of create_windows has end <= max_t and get_window_data
\* keeps only the events with start <= timestamp < end, so an event at the
\* maximum timestamp of the data set is in no window, for every positive
\* width and step.
C30_LastEventInNoWindow ==
    (window_size > 0 /\ step_size > 0) =>
        /\ \A k \in 1..Len(windows) : windows[k][2] <= TimeMax(df)
        /\ (pc = "window_loop" /\ i > 0) =>
               \A n \in 1..Len(interactions_df) :
                   /\ windows[i][1] <= interactions_df[n].timestamp
                   /\ interactions_df[n].timestamp < windows[i][2]
                   /\ interactions_df[n].timestamp # TimeMax(df)

\* the range query of the last of two windows, which ends at the maximum
\* timestamp and holds an event
C30_Witness ==
    /\ pc = "window_loop"
    /\ window_size > 0
    /\ step_size > 0
    /\ Len(windows) = 2
    /\ i = 2
    /\ windows[2][2] = TimeMax(df)
    /\ Len(interactions_df) > 0

=============================================================================
